---- MODULE Spec2Model ----
(***************************************************************************)
(* A state-machine model of the territory simulation in src/game.py:       *)
(* provinces, countries, armies and battles.                               *)
(*                                                                         *)
(* Conventions.                                                            *)
(*  - Python's None is the number None (0); provinces, countries and       *)
(*    armies are numbered from 1.                                          *)
(*  - owned_provinces, armies and the battle lists are Python lists and    *)
(*    are kept as sequences: an entry can occur twice.                     *)
(*  - population and gdp are kept DOUBLED (the integer h stands for h/2):  *)
(*    every amount the code produces is a multiple of 0.5, because the     *)
(*    only fractional factors applied to them are 0.5 per strength.        *)
(*  - random.choice(s) is modelled as s[(r % Len(s)) + 1] for a drawn r.   *)
(***************************************************************************)
EXTENDS Integers, Sequences, FiniteSets, TLC

(* ------------------------------ bounds --------------------------------- *)
NProv == 4
NCountry == 2
MaxArmies == 2
MaxCalls == 1

(* ------------------------- program constants --------------------------- *)
None == 0
ARMY_BASE_STRENGTH == 2000
ARMY_MAX_STRENGTH == 1000000
GAME_TICKS_PER_LOGICAL_SECOND == 30

Province == 1..NProv
Country == 1..NCountry
ArmyId == 1..MaxArmies

VARIABLES
    border_provinces,   \* Province.border_provinces: list of adjacent provinces
    is_coastal,         \* Province.is_coastal
    owner,              \* Province.owner: a country or None
    population,         \* Province.population, doubled
    gdp,                \* Province.gdp, doubled
    owned_provinces,    \* Country.owned_provinces: list of provinces
    capital_province,   \* Country.capital_province: a province or None
    armies,             \* Country.armies: list of army ids
    army,               \* the Army objects, by id
    active_battles,     \* BattleManager.active_battles: list of battles
    allies,             \* Country.allies: set of countries
    enemies,            \* Country.enemies: set of countries
    budget_allocation,  \* Country.budget_allocation, in hundredths
    attack_ratio_ai,    \* Country.attack_ratio_ai, in hundredths
    attack_target_ai,   \* Country.attack_target_ai: a country or None
    ret                 \* the last call made: its arguments, result, pre-state

vars == <<border_provinces, is_coastal, owner, population, gdp,
          owned_provinces, capital_province, armies, army, active_battles,
          allies, enemies, budget_allocation, attack_ratio_ai, attack_target_ai,
          ret>>

(* ------------------------------ helpers -------------------------------- *)
Range(s) == {s[i] : i \in 1..Len(s)}

InList(x, s) == \E i \in 1..Len(s) : s[i] = x

Count(x, s) == Cardinality({i \in 1..Len(s) : s[i] = x})

Min(a, b) == IF a <= b THEN a ELSE b

Max(a, b) == IF a >= b THEN a ELSE b

\* list.remove(x): drops the first occurrence only
ListRemove(s, x) ==
    IF ~InList(x, s) THEN s
    ELSE LET i == CHOOSE k \in 1..Len(s) : s[k] = x /\ \A j \in 1..(k-1) : s[j] # x
         IN  SubSeq(s, 1, i-1) \o SubSeq(s, i+1, Len(s))

\* random.choice(s) with the drawn number r
choice(s, r) == s[(r % Len(s)) + 1]

\* ascending list of the elements of a set of numbers
RECURSIVE SetToSeq(_)
SetToSeq(S) ==
    IF S = {} THEN <<>>
    ELSE LET m == CHOOSE x \in S : \A y \in S : x <= y
         IN  <<m>> \o SetToSeq(S \ {m})

RECURSIVE SumOver(_, _)
SumOver(s, f) == IF s = <<>> THEN 0 ELSE f[Head(s)] + SumOver(Tail(s), f)

\* sorted(s, key=..., reverse=True): stable, descending by key
\* Variant that leaves the list in the order it has.
sorted_as_listed(s, key) == s

RECURSIVE sorted_desc(_, _)
sorted_desc(s, key) ==
    IF s = <<>> THEN <<>>
    ELSE LET n == Len(s)
             x == s[n]
             t == sorted_desc(SubSeq(s, 1, n-1), key)
             k == Cardinality({i \in 1..Len(t) : key[t[i]] >= key[x]})
         IN  SubSeq(t, 1, k) \o <<x>> \o SubSeq(t, k+1, Len(t))

(* ------------------------------ Province ------------------------------- *)
\* a province with no adjacent province is an island
is_island(p) == border_provinces[p] = <<>>

(* ------------------------------- world --------------------------------- *)
\* the mutable objects of the program, as one value
World ==
    [owner |-> owner, population |-> population, gdp |-> gdp,
     owned_provinces |-> owned_provinces, capital_province |-> capital_province,
     armies |-> armies, army |-> army, active_battles |-> active_battles,
     note |-> "none"]

Install(w) ==
    /\ owner' = w.owner
    /\ population' = w.population
    /\ gdp' = w.gdp
    /\ owned_provinces' = w.owned_provinces
    /\ capital_province' = w.capital_province
    /\ armies' = w.armies
    /\ army' = w.army
    /\ active_battles' = w.active_battles

\* the value of an initial_population / initial_gdp argument left at None
Keep == 0 - 1

(* ------------------------------- Country ------------------------------- *)
\* Country.__init__: no allies, no enemies, the default budget, half of the
\* idle armies on the attack and no target named by the advisor
Country_init ==
    /\ allies = [c \in Country |-> {}]
    /\ enemies = [c \in Country |-> {}]
    /\ budget_allocation =
          [c \in Country |-> [defense |-> 40, economy |-> 30, research |-> 30]]
    /\ attack_ratio_ai = [c \in Country |-> 50]
    /\ attack_target_ai = [c \in Country |-> None]

UNCHANGED_ai ==
    UNCHANGED <<allies, enemies, budget_allocation, attack_ratio_ai, attack_target_ai>>

add_province(w, c, province, initial_population, initial_gdp) ==
    [w EXCEPT
        !.owner[province] = c,
        !.owned_provinces[c] = Append(@, province),
        !.population[province] =
            IF initial_population # Keep THEN initial_population ELSE @,
        !.gdp[province] = IF initial_gdp # Keep THEN initial_gdp ELSE @]

\* Variant that leaves the capital where it was when no province is left.
relocate_capital_stay(w, c, r) ==
    LET available_provinces ==
            SelectSeq(w.owned_provinces[c], LAMBDA p : p # w.capital_province[c])
    IN  IF available_provinces # <<>>
        THEN [w EXCEPT !.capital_province[c] = choice(available_provinces, r)]
        ELSE w

relocate_capital(w, c, r) ==
    LET available_provinces ==
            SelectSeq(w.owned_provinces[c], LAMBDA p : p # w.capital_province[c])
        inland_provinces ==
            SelectSeq(available_provinces, LAMBDA p : ~is_island(p) /\ ~is_coastal[p])
    IN  IF available_provinces # <<>>
        THEN IF inland_provinces # <<>>
             THEN [w EXCEPT !.capital_province[c] = choice(inland_provinces, r)]
             ELSE [w EXCEPT !.capital_province[c] = choice(available_provinces, r)]
        ELSE [w EXCEPT !.capital_province[c] = None]

\* Variant that drops the province without looking at the capital.
remove_province_keep_capital(w, c, province, r) ==
    [w EXCEPT
        !.owner[province] = None,
        !.owned_provinces[c] = ListRemove(@, province),
        !.population[province] = 0,
        !.gdp[province] = 0]

\* Variant that leaves the province its population and GDP.
remove_province_keep_values(w, c, province, r) ==
    LET w1 == IF province = w.capital_province[c] THEN relocate_capital(w, c, r) ELSE w
    IN  [w1 EXCEPT
            !.owner[province] = None,
            !.owned_provinces[c] = ListRemove(@, province)]

remove_province(w, c, province, r) ==
    LET w1 == IF province = w.capital_province[c] THEN relocate_capital(w, c, r) ELSE w
    IN  [w1 EXCEPT
            !.owner[province] = None,
            !.owned_provinces[c] = ListRemove(@, province),
            !.population[province] = 0,
            !.gdp[province] = 0]

\* the inner for loop of the BFS over current.border_provinces, from index i
RECURSIVE bfs_borders(_, _, _, _, _, _, _)
bfs_borders(w, c, province, bs, i, queue, visited) ==
    IF i > Len(bs) THEN [found |-> FALSE, queue |-> queue, visited |-> visited]
    ELSE IF w.owner[bs[i]] = c /\ bs[i] \notin visited
         THEN IF bs[i] = province
              THEN [found |-> TRUE, queue |-> queue, visited |-> visited]
              ELSE bfs_borders(w, c, province, bs, i + 1,
                               Append(queue, bs[i]), visited \cup {bs[i]})
         ELSE bfs_borders(w, c, province, bs, i + 1, queue, visited)

\* the while loop of the BFS
RECURSIVE bfs(_, _, _, _, _)
bfs(w, c, province, queue, visited) ==
    IF queue = <<>> THEN FALSE
    ELSE LET s == bfs_borders(w, c, province, border_provinces[Head(queue)], 1,
                              Tail(queue), visited)
         IN  IF s.found THEN TRUE ELSE bfs(w, c, province, s.queue, s.visited)

\* Variant of the query with the island exemption inside it (the callers'
\* test `is_island or connected` folded into the query).
connected_or_island(w, c, province) ==
    IF w.capital_province[c] = None \/ ~InList(province, w.owned_provinces[c])
    THEN FALSE
    ELSE IF province = w.capital_province[c] \/ is_island(province) THEN TRUE
    ELSE bfs(w, c, province, <<w.capital_province[c]>>, {w.capital_province[c]})

\* Variant of the query that stops after the capital's own neighbours.
connected_one_step(w, c, province) ==
    IF w.capital_province[c] = None \/ ~InList(province, w.owned_provinces[c])
    THEN FALSE
    ELSE IF province = w.capital_province[c] THEN TRUE
    ELSE bfs_borders(w, c, province, border_provinces[w.capital_province[c]], 1,
                     <<>>, {w.capital_province[c]}).found

is_province_connected_to_capital(w, c, province) ==
    IF w.capital_province[c] = None \/ ~InList(province, w.owned_provinces[c])
    THEN FALSE
    ELSE IF province = w.capital_province[c] THEN TRUE
    ELSE bfs(w, c, province, <<w.capital_province[c]>>, {w.capital_province[c]})

get_total_population(w, c) == SumOver(w.owned_provinces[c], w.population)

get_total_gdp(w, c) == SumOver(w.owned_provinces[c], w.gdp)

\* Variant of the deduction loop that charges the first province only.
deduct_first_only(vals, sorted_provinces, i, remaining_to_deduct) ==
    IF i > Len(sorted_provinces) \/ remaining_to_deduct <= 0
    THEN [vals |-> vals, remaining_to_deduct |-> remaining_to_deduct]
    ELSE LET p == sorted_provinces[i]
             deduct_from_province == Min(vals[p], remaining_to_deduct)
         IN  [vals |-> [vals EXCEPT ![p] = @ - deduct_from_province],
              remaining_to_deduct |-> remaining_to_deduct - deduct_from_province]

\* the for loop shared by deduct_population and deduct_gdp, from index i
RECURSIVE deduct_loop(_, _, _, _)
deduct_loop(vals, sorted_provinces, i, remaining_to_deduct) ==
    IF i > Len(sorted_provinces) \/ remaining_to_deduct <= 0
    THEN [vals |-> vals, remaining_to_deduct |-> remaining_to_deduct]
    ELSE LET p == sorted_provinces[i]
             deduct_from_province == Min(vals[p], remaining_to_deduct)
         IN  deduct_loop([vals EXCEPT ![p] = @ - deduct_from_province],
                         sorted_provinces, i + 1,
                         remaining_to_deduct - deduct_from_province)

deduct_population(w, c, amount) ==
    LET s == deduct_loop(w.population,
                         sorted_desc(w.owned_provinces[c], w.population), 1, amount)
    IN  [w |-> [w EXCEPT !.population = s.vals], result |-> (s.remaining_to_deduct = 0)]

deduct_gdp(w, c, amount) ==
    LET s == deduct_loop(w.gdp, sorted_desc(w.owned_provinces[c], w.gdp), 1, amount)
    IN  [w |-> [w EXCEPT !.gdp = s.vals], result |-> (s.remaining_to_deduct = 0)]

(* -------------------------------- Army --------------------------------- *)
\* an unused army id
NoArmy ==
    [owner |-> None, current_province |-> None, strength |-> 0,
     target_province |-> None, mission_type |-> "idle",
     defense_province_target |-> None, move_progress |-> 0,
     is_moving |-> FALSE, in_battle |-> FALSE, combat_initiated |-> FALSE]

\* Army.__init__; move_progress counts steps of move_speed
Army(c, current_province, strength) ==
    [NoArmy EXCEPT !.owner = c, !.current_province = current_province,
                   !.strength = strength]

\* the ids given so far; an id is not given twice
UsedIds(w) == {a \in DOMAIN w.army : w.army[a].owner # None}

FreeIds(w) == DOMAIN w.army \ UsedIds(w)

\* the id the next Army object gets
NewId(w) == CHOOSE a \in FreeIds(w) : \A b \in FreeIds(w) : a <= b

(* ------------------------ Country.create_army -------------------------- *)
\* The whole numbers s (multiples of 10 up to 3,000,000) for which the
\* double product s * 0.7 falls just below the whole number 7s/10, as
\* <<first, last>> ranges; for every other s in 0..3,000,000, whole or a
\* whole number and a half, int(s * 0.7) is the floor of 7s/10.
RoundsBelow ==
    << <<90, 90>>, <<170, 180>>, <<330, 360>>, <<650, 730>>, <<1290, 1460>>,
       <<2570, 2920>>, <<5130, 5850>>, <<10250, 11700>>, <<20490, 23400>>,
       <<40970, 46810>>, <<81930, 93620>>, <<163850, 187240>>,
       <<327690, 374490>>, <<655370, 748980>>, <<1310730, 1497960>>,
       <<2621450, 2995930>> >>

InRanges(s, ranges) ==
    \E i \in 1..Len(ranges) : ranges[i][1] <= s /\ s <= ranges[i][2]

\* Variant without the coastal reduction.
full_strength(strength) == strength

\* int(strength * 0.7)
coastal_strength(strength) ==
    IF strength % 10 = 0 /\ InRanges(strength, RoundsBelow)
    THEN (7 * strength) \div 10 - 1
    ELSE (7 * strength) \div 10

\* Variant of create_army that charges without first checking the totals.
create_army_unchecked(w, c, province, strength) ==
    IF ~is_island(province) /\ ~is_province_connected_to_capital(w, c, province)
    THEN [w |-> w, result |-> None]
    ELSE
    LET strength1 ==
            IF strength = None
            THEN Min(ARMY_BASE_STRENGTH + (get_total_gdp(w, c) \div 2000),
                     ARMY_MAX_STRENGTH)
            ELSE strength
        actual_strength ==
            IF is_coastal[province] THEN coastal_strength(strength1) ELSE strength1
        dp == deduct_population(w, c, actual_strength)
        dg == deduct_gdp(dp.w, c, 4 * actual_strength)
        new_army == NewId(w)
    IN  IF ~dp.result THEN [w |-> dp.w, result |-> None]
        ELSE IF ~dg.result THEN [w |-> dg.w, result |-> None]
        ELSE [w |-> [dg.w EXCEPT
                        !.army[new_army] = Army(c, province, actual_strength),
                        !.armies[c] = Append(@, new_army)],
              result |-> new_army]

\* Variant of create_army without the check of the province.
create_army_anywhere(w, c, province, strength) ==
    LET strength1 ==
            IF strength = None
            THEN Min(ARMY_BASE_STRENGTH + (get_total_gdp(w, c) \div 2000),
                     ARMY_MAX_STRENGTH)
            ELSE strength
        actual_strength ==
            IF is_coastal[province] THEN coastal_strength(strength1) ELSE strength1
        dp == deduct_population(w, c, actual_strength)
        dg == deduct_gdp(dp.w, c, 4 * actual_strength)
        new_army == NewId(w)
    IN  IF \/ get_total_population(w, c) < actual_strength
           \/ get_total_gdp(w, c) < 4 * actual_strength
        THEN [w |-> w, result |-> None]
        ELSE [w |-> [dg.w EXCEPT
                        !.army[new_army] = Army(c, province, actual_strength),
                        !.armies[c] = Append(@, new_army)],
              result |-> new_army]

\* strength = None asks for the GDP-based size; the result is the army's id,
\* or None
create_army(w, c, province, strength) ==
    IF ~is_island(province) /\ ~is_province_connected_to_capital(w, c, province)
    THEN [w |-> w, result |-> None]
    ELSE
    LET total_gdp == get_total_gdp(w, c)
        strength1 ==
            IF strength = None
            THEN Min(ARMY_BASE_STRENGTH + (total_gdp \div 2000), ARMY_MAX_STRENGTH)
            ELSE strength
        actual_strength ==
            IF is_coastal[province] THEN coastal_strength(strength1) ELSE strength1
        \* doubled: actual_strength * 0.5 and actual_strength * 2
        required_population == actual_strength
        required_gdp == 4 * actual_strength
    IN  IF get_total_population(w, c) < required_population
           \/ get_total_gdp(w, c) < required_gdp
        THEN [w |-> w, result |-> None]
        ELSE
        LET dp == deduct_population(w, c, required_population)
            dg == deduct_gdp(dp.w, c, required_gdp)
            new_army == NewId(w)
        IN  IF ~dp.result THEN [w |-> dp.w, result |-> None]
            ELSE IF ~dg.result THEN [w |-> dg.w, result |-> None]
            ELSE [w |-> [dg.w EXCEPT
                            !.army[new_army] = Army(c, province, actual_strength),
                            !.armies[c] = Append(@, new_army)],
                  result |-> new_army]

(* --------------------------- recording calls --------------------------- *)
\* what a call could change, as it was before the call
Snapshot(w) ==
    [population |-> w.population, gdp |-> w.gdp, armies |-> w.armies,
     owned_provinces |-> w.owned_provinces, owner |-> w.owner,
     capital_province |-> w.capital_province]

NoCall == [op |-> "none", c |-> None, p |-> None, amount |-> 0,
           result |-> FALSE, calls |-> 0,
           pre |-> [population |-> <<>>, gdp |-> <<>>, armies |-> <<>>,
                    owned_provinces |-> <<>>, owner |-> <<>>,
                    capital_province |-> <<>>]]

Call(op, c, p, amount, result) ==
    [op |-> op, c |-> c, p |-> p, amount |-> amount, result |-> result,
     calls |-> ret.calls + 1, pre |-> Snapshot(World)]

(* ------------------------------ world-gen ------------------------------ *)
Pairs == {e \in Province \X Province : e[1] < e[2]}

\* border_provinces of every province for the set E of adjacent pairs
BordersOf(E) ==
    [p \in Province |->
        SetToSeq({q \in Province : <<p, q>> \in E \/ <<q, p>> \in E})]

\* provinces 1 .. NProv-1 in a row, the last province an island
LineEdges == {e \in Pairs : e[2] = e[1] + 1 /\ e[2] < NProv}

NoArmies ==
    /\ armies = [c \in Country |-> <<>>]
    /\ army = [a \in ArmyId |-> NoArmy]
    /\ active_battles = <<>>
    /\ ret = NoCall

(* ------------------- the connectivity query, by itself ----------------- *)
\* any map, any ownership whose lists agree with the owner fields, any capital
\* among the owned provinces
InitConn ==
    /\ Country_init
    /\ \E E \in SUBSET Pairs : border_provinces = BordersOf(E)
    /\ is_coastal = [p \in Province |-> is_island(p)]
    /\ owner \in [Province -> Country \cup {None}]
    /\ owned_provinces = [c \in Country |-> SetToSeq({p \in Province : owner[p] = c})]
    /\ capital_province \in [Country -> Province \cup {None}]
    /\ \A c \in Country :
          IF owned_provinces[c] = <<>> THEN capital_province[c] = None
          ELSE capital_province[c] # None /\ owner[capital_province[c]] = c
    /\ population = [p \in Province |-> 0]
    /\ gdp = [p \in Province |-> 0]
    /\ NoArmies

QueryConnected(c, p) ==
    /\ ret.calls < MaxCalls
    /\ ret' = Call("is_province_connected_to_capital", c, p, 0,
                   is_province_connected_to_capital(World, c, p))
    /\ UNCHANGED <<border_provinces, is_coastal, owner, population, gdp,
                   owned_provinces, capital_province, armies, army, active_battles>>
    /\ UNCHANGED_ai

NextConn == \E c \in Country, p \in Province : QueryConnected(c, p)

SpecConn == InitConn /\ [][NextConn]_vars

\* the provinces joined to the set S by adjacent provinces all owned by c
RECURSIVE SameOwnerClosure(_, _)
SameOwnerClosure(S, c) ==
    LET N == S \cup {q \in Province :
                        owner[q] = c /\ \E t \in S : InList(q, border_provinces[t])}
    IN  IF N = S THEN S ELSE SameOwnerClosure(N, c)

Queried == ret.op = "is_province_connected_to_capital"

\* C7 as stated: the query answers true for the capital and for every owned
\* island.
C7_AsStated ==
    Queried /\ owner[ret.p] = ret.c
            /\ (ret.p = capital_province[ret.c] \/ is_island(ret.p))
        => ret.result = TRUE

\* C7, amended: the query answers true for the capital; for an owned island
\* that is not the capital it answers false, an island having no adjacent
\* province to be reached through.
C7_CapitalTrueIslandFalse ==
    Queried /\ owner[ret.p] = ret.c =>
        /\ ret.p = capital_province[ret.c] => ret.result = TRUE
        /\ is_island(ret.p) /\ ret.p # capital_province[ret.c] => ret.result = FALSE

\* the query was asked about an owned island that is not the capital, and
\* about nothing else in this behaviour
C7_Witness ==
    /\ Queried
    /\ owner[ret.p] = ret.c
    /\ is_island(ret.p)
    /\ capital_province[ret.c] # None
    /\ ret.p # capital_province[ret.c]
    /\ ret.result = FALSE

\* C8: for an owned province that is neither an island nor the capital, of a
\* country that has a capital, the query answers true exactly when the
\* province is joined to the capital by adjacent provinces of the same owner;
\* for a province the country does not own it answers false.
C8_AgreesWithReachability ==
    Queried =>
        /\ owner[ret.p] # ret.c => ret.result = FALSE
        /\ owner[ret.p] = ret.c /\ ~is_island(ret.p)
           /\ capital_province[ret.c] # None /\ ret.p # capital_province[ret.c]
           => (ret.result <=> ret.p \in SameOwnerClosure({capital_province[ret.c]}, ret.c))

\* the query found a province that is two or more steps from the capital
C8_Witness ==
    /\ Queried
    /\ owner[ret.p] = ret.c
    /\ capital_province[ret.c] # None
    /\ ret.p # capital_province[ret.c]
    /\ ~InList(ret.p, border_provinces[capital_province[ret.c]])
    /\ ret.result = TRUE

(* ---------------------- the ledger calls, by themselves ---------------- *)
\* <<population, gdp>> of a province, doubled: a start province (10,000 and
\* 1,000,000), a province lost and taken again (0 and 0), one drained of
\* population (1,049 and 1,000,000), one drained of GDP (51,000 and 3,000)
ProvinceValues ==
    { <<20000, 2000000>>, <<0, 0>>, <<2098, 2000000>>, <<102000, 6000>> }

\* country 1 owns any non-empty set of provinces of the row-and-island map,
\* with any of them as capital; the other provinces are ownerless
InitLedger ==
    /\ Country_init
    /\ border_provinces = BordersOf(LineEdges)
    /\ \E k \in Province \cup {None} :
          is_coastal = [p \in Province |-> is_island(p) \/ p = k]
    /\ \E S \in SUBSET Province \ {{}} :
          /\ owner = [p \in Province |-> IF p \in S THEN 1 ELSE None]
          /\ owned_provinces = [c \in Country |-> IF c = 1 THEN SetToSeq(S) ELSE <<>>]
          /\ \E k \in S :
                capital_province = [c \in Country |-> IF c = 1 THEN k ELSE None]
    /\ \E v \in [Province -> ProvinceValues] :
          /\ \A p \in Province : owner[p] = None => v[p] = <<0, 0>>
          /\ population = [p \in Province |-> v[p][1]]
          /\ gdp = [p \in Province |-> v[p][2]]
    /\ NoArmies

\* the amounts tried against a total: nothing, half a unit, half of it, all of
\* it, and half a unit too much
Amounts(total) == {0, 1, total \div 2, total, total + 1}

UNCHANGED_map == UNCHANGED <<border_provinces, is_coastal>>

DeductPopulation(c, amount) ==
    /\ ret.calls < MaxCalls
    /\ LET s == deduct_population(World, c, amount)
       IN  /\ Install(s.w)
           /\ ret' = Call("deduct_population", c, None, amount, s.result)
    /\ UNCHANGED_map
    /\ UNCHANGED_ai

DeductGdp(c, amount) ==
    /\ ret.calls < MaxCalls
    /\ LET s == deduct_gdp(World, c, amount)
       IN  /\ Install(s.w)
           /\ ret' = Call("deduct_gdp", c, None, amount, s.result)
    /\ UNCHANGED_map
    /\ UNCHANGED_ai

CreateArmy(c, p, strength) ==
    /\ ret.calls < MaxCalls
    /\ FreeIds(World) # {}
    /\ LET s == create_army(World, c, p, strength)
       IN  /\ Install(s.w)
           /\ ret' = Call("create_army", c, p, strength, s.result)
    /\ UNCHANGED_map
    /\ UNCHANGED_ai

NextLedger ==
    \/ \E c \in Country :
          \E amount \in Amounts(get_total_population(World, c)) :
             DeductPopulation(c, amount)
    \/ \E c \in Country :
          \E amount \in Amounts(get_total_gdp(World, c)) : DeductGdp(c, amount)
    \/ \E c \in Country, p \in Province, strength \in {None, ARMY_BASE_STRENGTH} :
          CreateArmy(c, p, strength)

SpecLedger == InitLedger /\ [][NextLedger]_vars

PreTotalPopulation == SumOver(ret.pre.owned_provinces[ret.c], ret.pre.population)

PreTotalGdp == SumOver(ret.pre.owned_provinces[ret.c], ret.pre.gdp)

\* C5: deduct_gdp called with an amount between 0 and the country's total GDP
\* reports success and leaves the total lower by exactly that amount; the
\* same for deduct_population and the total population.
C5_DeductExact ==
    /\ ret.op = "deduct_gdp" /\ 0 <= ret.amount /\ ret.amount <= PreTotalGdp
       => /\ ret.result = TRUE
          /\ get_total_gdp(World, ret.c) = PreTotalGdp - ret.amount
    /\ ret.op = "deduct_population" /\ 0 <= ret.amount
       /\ ret.amount <= PreTotalPopulation
       => /\ ret.result = TRUE
          /\ get_total_population(World, ret.c) = PreTotalPopulation - ret.amount

\* a deduction within the total that had to be taken from two provinces
C5_Witness ==
    /\ ret.op = "deduct_gdp"
    /\ 0 < ret.amount /\ ret.amount <= PreTotalGdp
    /\ ret.result = TRUE
    /\ Cardinality({p \in Province : gdp[p] # ret.pre.gdp[p]}) >= 2

\* C6: create_army is all or nothing. When it returns no army, every
\* province's population and GDP and every army list are as before. When it
\* returns an army, total population is lower by the army's strength x 0.5,
\* total GDP by its strength x 2, and the country's army list is the old
\* list with exactly that one army appended.
C6_AllOrNothing ==
    ret.op = "create_army" =>
        IF ret.result = None
        THEN /\ population = ret.pre.population
             /\ gdp = ret.pre.gdp
             /\ armies = ret.pre.armies
        ELSE /\ army[ret.result].strength > 0
             /\ army[ret.result].owner = ret.c
             /\ army[ret.result].current_province = ret.p
             /\ ret.amount # None /\ ~is_coastal[ret.p]
                => army[ret.result].strength = ret.amount
             /\ get_total_population(World, ret.c)
                = PreTotalPopulation - army[ret.result].strength
             /\ get_total_gdp(World, ret.c)
                = PreTotalGdp - 4 * army[ret.result].strength
             /\ armies = [ret.pre.armies EXCEPT ![ret.c] = Append(@, ret.result)]
             /\ ~InList(ret.result, ret.pre.armies[ret.c])

\* an army was created and paid for out of two provinces
C6_Witness ==
    /\ ret.op = "create_army"
    /\ ret.result # None
    /\ Len(armies[ret.c]) = Len(ret.pre.armies[ret.c]) + 1
    /\ Cardinality({p \in Province : gdp[p] # ret.pre.gdp[p]}) >= 2

\* C10: a country with total population 10,000 and total GDP 1,000,000 that
\* calls create_army(province, None) on an owned coastal province joined to
\* its capital gets an army of strength 2,100 and is charged population 1,050
\* and GDP 4,200: its total GDP is lower by exactly 4,200.
C10_CoastalScenario ==
    /\ ret.op = "create_army" /\ ret.amount = None
    /\ PreTotalPopulation = 2 * 10000 /\ PreTotalGdp = 2 * 1000000
    /\ owner[ret.p] = ret.c /\ is_coastal[ret.p]
    /\ capital_province[ret.c] # None
    /\ ret.p \in SameOwnerClosure({capital_province[ret.c]}, ret.c)
    => /\ ret.result # None
       /\ army[ret.result].strength = 2100
       /\ 2 * 1050 = PreTotalPopulation - get_total_population(World, ret.c)
       /\ 2 * 4200 = PreTotalGdp - get_total_gdp(World, ret.c)

\* the scenario was played on a coastal province other than the capital
C10_Witness ==
    /\ ret.op = "create_army" /\ ret.amount = None
    /\ PreTotalPopulation = 2 * 10000 /\ PreTotalGdp = 2 * 1000000
    /\ owner[ret.p] = ret.c /\ is_coastal[ret.p] /\ ~is_island(ret.p)
    /\ capital_province[ret.c] # None /\ ret.p # capital_province[ret.c]
    /\ ret.p \in SameOwnerClosure({capital_province[ret.c]}, ret.c)
    /\ ret.result # None

(* ----------------------------- big numbers ----------------------------- *)
\* Battle strengths are products beyond 32-bit integers. They are kept as
\* natural numbers in base 10000: a list of digits, the least
\* significant first, no zero as the most significant digit; <<>> is 0.
RECURSIVE BN(_)
BN(n) == IF n = 0 THEN <<>> ELSE <<n % 10000>> \o BN(n \div 10000)

RECURSIVE BNAddC(_, _, _)
BNAddC(a, b, carry) ==
    IF a = <<>> /\ b = <<>> THEN BN(carry)
    ELSE LET x == IF a = <<>> THEN 0 ELSE Head(a)
             y == IF b = <<>> THEN 0 ELSE Head(b)
             t == x + y + carry
         IN  <<t % 10000>> \o BNAddC(IF a = <<>> THEN a ELSE Tail(a),
                                     IF b = <<>> THEN b ELSE Tail(b),
                                     t \div 10000)

BNAdd(a, b) == BNAddC(a, b, 0)

RECURSIVE BNMulDigit(_, _, _)
BNMulDigit(a, d, carry) ==
    IF a = <<>> THEN BN(carry)
    ELSE LET t == Head(a) * d + carry
         IN  <<t % 10000>> \o BNMulDigit(Tail(a), d, t \div 10000)

RECURSIVE BNMul(_, _)
BNMul(a, b) ==
    IF a = <<>> \/ b = <<>> THEN <<>>
    ELSE LET rest == BNMul(a, Tail(b))
         IN  BNAdd(IF Head(b) = 0 THEN <<>> ELSE BNMulDigit(a, Head(b), 0),
                   IF rest = <<>> THEN <<>> ELSE <<0>> \o rest)

BNLess(a, b) ==
    IF Len(a) # Len(b) THEN Len(a) < Len(b)
    ELSE \E i \in 1..Len(a) :
            a[i] < b[i] /\ \A j \in (i+1)..Len(a) : a[j] = b[j]

RECURSIVE Pow25(_)
Pow25(k) == IF k = 0 THEN BN(1) ELSE BNMulDigit(Pow25(k - 1), 25, 0)

(* ------------------------------ Army methods --------------------------- *)
\* Province.get_center_coordinates: the provinces lie along a line, each at
\* the position of its number
centre == [p \in Province |-> p]

distance(p, q) == IF centre[p] >= centre[q] THEN centre[p] - centre[q]
                  ELSE centre[q] - centre[p]

\* Army.start_move_animation
start_move_animation(w, a) ==
    IF w.army[a].target_province # None
    THEN [w EXCEPT !.army[a].move_progress = 0, !.army[a].is_moving = TRUE]
    ELSE w

\* Army.set_target
set_target(w, a, target_province) ==
    LET w1 == [w EXCEPT !.army[a].target_province = target_province,
                        !.army[a].in_battle = FALSE]
    IN  IF target_province # None /\ ~w1.army[a].is_moving
        THEN start_move_animation(w1, a)
        ELSE w1

\* Variant that adds the strengths and leaves the merged armies listed.
consolidate_keep_merged(w, c, province) ==
    LET armies_in_province ==
            sorted_desc(SelectSeq(w.armies[c],
                            LAMBDA x : w.army[x].current_province = province
                                       /\ w.army[x].strength > 0),
                        [x \in ArmyId |-> w.army[x].strength])
    IN  IF Len(armies_in_province) <= 1 THEN w
        ELSE [w EXCEPT
                !.army[Head(armies_in_province)].strength =
                    @ + SumOver(Tail(armies_in_province),
                                [x \in ArmyId |-> w.army[x].strength])]

\* Country.consolidate_armies_in_province
consolidate_armies_in_province(w, c, province) ==
    LET armies_in_province ==
            sorted_desc(SelectSeq(w.armies[c],
                            LAMBDA x : w.army[x].current_province = province
                                       /\ w.army[x].strength > 0),
                        [x \in ArmyId |-> w.army[x].strength])
    IN  IF Len(armies_in_province) <= 1 THEN w
        ELSE LET main_army == Head(armies_in_province)
                 armies_to_merge == Tail(armies_in_province)
                 total_merged_strength ==
                     SumOver(armies_to_merge, [x \in ArmyId |-> w.army[x].strength])
             IN  [w EXCEPT
                    !.army[main_army].strength = @ + total_merged_strength,
                    !.armies[c] =
                        SelectSeq(@, LAMBDA x : ~InList(x, armies_to_merge))]

\* Army.update_animation, called by Army.move; move_speed is 0.2 and the
\* fifth step reaches 1.0
update_animation(w, a) ==
    LET self == w.army[a]
    IN  IF self.is_moving /\ self.target_province # None
        THEN IF self.move_progress + 1 >= 5
             THEN consolidate_armies_in_province(
                      [w EXCEPT !.army[a].move_progress = 5,
                                !.army[a].is_moving = FALSE,
                                !.army[a].current_province = self.target_province],
                      self.owner, self.target_province)
             ELSE [w EXCEPT !.army[a].move_progress = @ + 1]
        ELSE w

\* Variant that retreats to the first province of the list.
retreat_to_first_province(w, a) ==
    LET self == w.army[a]
        owned == w.owned_provinces[self.owner]
    IN  IF owned = <<>> THEN w
        ELSE [w EXCEPT !.army[a].current_province = owned[1],
                       !.army[a].target_province = None]

\* Army.retreat_to_friendly_territory: the first of the nearest owned
\* provinces
retreat_to_friendly_territory(w, a) ==
    LET self == w.army[a]
        owned == w.owned_provinces[self.owner]
    IN  IF owned = <<>> THEN w
        ELSE LET i == CHOOSE k \in 1..Len(owned) :
                        /\ \A j \in 1..Len(owned) :
                              distance(self.current_province, owned[k])
                                  <= distance(self.current_province, owned[j])
                        /\ \A j \in 1..(k-1) :
                              distance(self.current_province, owned[j])
                                  > distance(self.current_province, owned[k])
             IN  [w EXCEPT !.army[a].current_province = owned[i],
                           !.army[a].target_province = None]

(* -------------------------------- Battle ------------------------------- *)
\* A penalty is kept in hundredths: 1 for 0.01 and 100 for 1.0.
\* province_defense_strength is kept as [n, k], standing for
\* n / (4000 * 25^k): population / 2000 of the doubled population n, and
\* each partial reduction multiplies by 18/25, 15/25 or 12/25.
\* random_factor multiplies both strengths and is left out of both.

\* Battle._calculate_attack_penalty
calculate_attack_penalty(w, province, attacking_armies) ==
    IF \E i \in 1..Len(attacking_armies) :
          LET c == w.army[attacking_armies[i]].owner
          IN  \E j \in 1..Len(w.owned_provinces[c]) :
                 LET owned_province == w.owned_provinces[c][j]
                 IN  /\ InList(province, border_provinces[owned_province])
                     /\ ~is_island(owned_province)
                     /\ ~is_province_connected_to_capital(w, c, owned_province)
    THEN 1 ELSE 100

\* Battle._calculate_defense_penalty
calculate_defense_penalty(w, province) ==
    IF /\ ~is_island(province)
       /\ w.owner[province] # None
       /\ ~is_province_connected_to_capital(w, w.owner[province], province)
    THEN 1 ELSE 100

\* Battle.__init__
Battle(w, province, attacking_armies, defending_armies, province_defense_strength) ==
    [province |-> province,
     attacking_armies |-> attacking_armies,
     defending_armies |-> defending_armies,
     province_defense_strength |-> province_defense_strength,
     original_province_owner |-> w.owner[province],
     is_active |-> TRUE,
     battle_duration |-> 0,
     damage_per_tick |-> 2,
     attack_penalty |-> calculate_attack_penalty(w, province, attacking_armies),
     defense_penalty |-> calculate_defense_penalty(w, province)]

\* 1 + get_total_gdp() * GDP_BATTLE_STRENGTH_FACTOR, times 400000
gdp_bonus(w, c) == BN(400000 + get_total_gdp(w, c))

\* the sum of strength * gdp_bonus over the armies of a side
RECURSIVE total_strength(_, _)
total_strength(w, side) ==
    IF side = <<>> THEN <<>>
    ELSE LET x == w.army[Head(side)]
         IN  BNAdd(IF x.strength > 0
                   THEN BNMul(BN(x.strength), gdp_bonus(w, x.owner))
                   ELSE <<>>,
                   total_strength(w, Tail(side)))

\* the common factor that clears the denominators of both strengths
Scale(b) == BNMul(BN(4000), Pow25(b.province_defense_strength.k))

\* Battle.get_current_attack_strength, times 100 * 400000 * Scale
get_current_attack_strength(w, b) ==
    BNMul(BN(b.attack_penalty),
          BNMul(Scale(b), total_strength(w, b.attacking_armies)))

\* Battle.get_current_defense_strength, times 100 * 400000 * Scale
get_current_defense_strength(w, b) ==
    BNMul(BN(b.defense_penalty),
          BNAdd(BNMul(Scale(b), total_strength(w, b.defending_armies)),
                BNMul(b.province_defense_strength.n,
                      IF w.owner[b.province] # None
                      THEN gdp_bonus(w, w.owner[b.province])
                      ELSE BN(400000))))

\* The strengths s (multiples of 25 up to ARMY_MAX_STRENGTH) for which the
\* double product s * (2 * 0.2 * 0.7) falls just below the whole number
\* 28s/100, as <<first, last>> ranges.
RoundsBelow28 ==
    << <<25, 450>>, <<500, 900>>, <<1000, 1825>>, <<1975, 3650>>,
       <<3950, 7300>>, <<7900, 14625>>, <<15775, 29250>>, <<31525, 58500>>,
       <<63025, 117025>>, <<126050, 234050>>, <<252075, 468100>>,
       <<504125, 936225>> >>

\* int(army.strength * damage_rate), for damage_rate = damage_per_tick *
\* (1.5 if heavy else 0.2) * m / 10 with m one of 7, 10, 13. A rate of 1 or
\* more takes the whole strength: the heavy rate is at least 2.1 and any
\* rate after a critical tick at least 2.8.
damage(strength, damage_per_tick, heavy, m) ==
    IF heavy \/ damage_per_tick > 2 THEN strength
    ELSE IF m = 7
         THEN IF strength % 25 = 0 /\ InRanges(strength, RoundsBelow28)
              THEN (28 * strength) \div 100 - 1
              ELSE (28 * strength) \div 100
    ELSE IF m = 10 THEN (2 * strength) \div 5
    ELSE (13 * strength) \div 25

\* _damage_army_group without the removal of the armies it has brought to 0
RECURSIVE damage_army_group_keep(_, _, _, _, _)
damage_army_group_keep(w, side, damage_per_tick, heavy, m) ==
    IF side = <<>> THEN w
    ELSE LET a == Head(side)
             x == w.army[a]
             left == Max(0, x.strength
                            - Max(1, damage(x.strength, damage_per_tick, heavy, m)))
             w1 == IF x.strength > 0
                   THEN [w EXCEPT !.army[a].strength = left]
                   ELSE w
         IN  damage_army_group_keep(w1, Tail(side), damage_per_tick, heavy, m)

\* Battle._damage_army_group
RECURSIVE damage_army_group(_, _, _, _, _)
damage_army_group(w, side, damage_per_tick, heavy, m) ==
    IF side = <<>> THEN w
    ELSE LET a == Head(side)
             x == w.army[a]
             left == Max(0, x.strength
                            - Max(1, damage(x.strength, damage_per_tick, heavy, m)))
             w1 == IF x.strength > 0
                   THEN [w EXCEPT
                           !.army[a].strength = left,
                           !.armies[x.owner] =
                               IF left <= 0 THEN ListRemove(@, a) ELSE @]
                   ELSE w
         IN  damage_army_group(w1, Tail(side), damage_per_tick, heavy, m)

\* Variant that damages the armies and leaves province_defense_strength as
\* it is.
apply_battle_damage_armies_only(w, i, attack, defense, m) ==
    LET b == w.active_battles[i]
        attackers_dominant == BNLess(defense, attack)
        w1 == damage_army_group(w, b.attacking_armies, b.damage_per_tick,
                                ~attackers_dominant, m)
    IN  damage_army_group(w1, b.defending_armies, b.damage_per_tick,
                          attackers_dominant, m)

\* Variant that reduces province_defense_strength when the share of the
\* defenders, not of the attackers, is 0.4 or more.
apply_battle_damage_by_defense_share(w, i, attack, defense, m) ==
    LET b == w.active_battles[i]
        attackers_dominant == BNLess(defense, attack)
        w1 == damage_army_group(w, b.attacking_armies, b.damage_per_tick,
                                ~attackers_dominant, m)
        w2 == damage_army_group(w1, b.defending_armies, b.damage_per_tick,
                                attackers_dominant, m)
        pds == b.province_defense_strength
    IN  IF attack = <<>> /\ defense = <<>> THEN w
        ELSE IF ~BNLess(BNMulDigit(defense, 3, 0), BNMulDigit(attack, 2, 0))
             THEN IF attackers_dominant \/ b.damage_per_tick > 2 \/ pds.n = <<>>
                  THEN [w2 EXCEPT !.active_battles[i].province_defense_strength =
                                      [n |-> <<>>, k |-> 0]]
                  ELSE [w2 EXCEPT !.active_battles[i].province_defense_strength =
                            [n |-> BNMulDigit(pds.n,
                                       IF m = 7 THEN 18
                                       ELSE IF m = 10 THEN 15 ELSE 12, 0),
                             k |-> pds.k + 1]]
             ELSE w2

\* Battle._apply_battle_damage to battle number i; attack and defense are the
\* two scaled strengths
apply_battle_damage(w, i, attack, defense, m) ==
    LET b == w.active_battles[i]
        attackers_dominant == BNLess(defense, attack)   \* strength_ratio > 0.5
        w1 == damage_army_group(w, b.attacking_armies, b.damage_per_tick,
                                ~attackers_dominant, m)
        w2 == damage_army_group(w1, b.defending_armies, b.damage_per_tick,
                                attackers_dominant, m)
        pds == b.province_defense_strength
    IN  IF attack = <<>> /\ defense = <<>> THEN w
        ELSE IF ~BNLess(BNMulDigit(attack, 3, 0), BNMulDigit(defense, 2, 0))
             \* strength_ratio >= 0.4
             THEN IF attackers_dominant \/ b.damage_per_tick > 2 \/ pds.n = <<>>
                  THEN [w2 EXCEPT !.active_battles[i].province_defense_strength =
                                      [n |-> <<>>, k |-> 0]]
                  ELSE [w2 EXCEPT !.active_battles[i].province_defense_strength =
                            [n |-> BNMulDigit(pds.n,
                                       IF m = 7 THEN 18
                                       ELSE IF m = 10 THEN 15 ELSE 12, 0),
                             k |-> pds.k + 1]]
             ELSE w2

\* army.in_battle = False for every army of both sides
RECURSIVE leave_battle(_, _)
leave_battle(w, side) ==
    IF side = <<>> THEN w
    ELSE leave_battle([w EXCEPT !.army[Head(side)].in_battle = FALSE], Tail(side))

\* max(self.attacking_armies, key=strength): the first of the strongest
strongest(w, side) ==
    side[CHOOSE k \in 1..Len(side) :
            /\ \A j \in 1..Len(side) : w.army[side[k]].strength >= w.army[side[j]].strength
            /\ \A j \in 1..(k-1) : w.army[side[j]].strength < w.army[side[k]].strength]

\* int(conquered_population * 0.98) of the doubled population h, doubled
preserved_population(h) == 2 * ((49 * h) \div 100)

\* int(conquered_gdp * 0.7) of the doubled GDP h, doubled
preserved_gdp(h) ==
    LET a == IF h < 0 THEN 0 - h ELSE h     \* int() rounds towards 0
        v == IF a % 20 = 0 /\ InRanges(a \div 2, RoundsBelow)
             THEN 2 * ((7 * a) \div 20 - 1)
             ELSE 2 * ((7 * a) \div 20)
    IN  IF h < 0 THEN 0 - v ELSE v

RECURSIVE stand_down(_, _)
stand_down(w, side) ==
    IF side = <<>> THEN w
    ELSE LET a == Head(side)
         IN  stand_down(IF w.army[a].mission_type # "defense"
                        THEN [w EXCEPT !.army[a].target_province = None,
                                       !.army[a].mission_type = "idle"]
                        ELSE w,
                        Tail(side))

\* Battle._end_battle_attacker_victory of battle number i; note records the
\* outcome
end_battle_attacker_victory(w, i, r) ==
    LET b == w.active_battles[i]
        w1 == [leave_battle(w, b.attacking_armies \o b.defending_armies)
                  EXCEPT !.active_battles[i].is_active = FALSE,
                         !.note = "attacker_victory"]
    IN  IF b.attacking_armies = <<>> THEN w1
        ELSE LET winner == w1.army[strongest(w1, b.attacking_armies)].owner
                 conquered_population == w1.population[b.province]
                 conquered_gdp == w1.gdp[b.province]
                 w2 == IF b.original_province_owner # None
                       THEN remove_province(w1, b.original_province_owner,
                                            b.province, r)
                       ELSE w1
                 w3 == add_province(w2, winner, b.province,
                                    preserved_population(conquered_population),
                                    preserved_gdp(conquered_gdp))
             IN  stand_down(w3, b.attacking_armies)

RECURSIVE retreat_all(_, _)
retreat_all(w, side) ==
    IF side = <<>> THEN w
    ELSE retreat_all(IF w.army[Head(side)].strength > 0
                     THEN retreat_to_friendly_territory(w, Head(side))
                     ELSE w,
                     Tail(side))

\* Battle._end_battle_defender_victory of battle number i
end_battle_defender_victory(w, i) ==
    LET b == w.active_battles[i]
    IN  retreat_all([leave_battle(w, b.attacking_armies \o b.defending_armies)
                        EXCEPT !.active_battles[i].is_active = FALSE,
                               !.note = "defender_victory"],
                    b.attacking_armies)

\* Variant of Battle.update that goes on after max_battle_duration.
update_without_timeout(w, i, critical, m, r) ==
    LET b0 == w.active_battles[i]
        battle_duration == b0.battle_duration + 1
        alive(side) ==
            SelectSeq(side, LAMBDA a : w.army[a].strength > 0
                                       /\ InList(a, w.armies[w.army[a].owner]))
        b == [b0 EXCEPT
                !.battle_duration = battle_duration,
                !.damage_per_tick = IF battle_duration <= 3 /\ critical
                                    THEN @ * 10 ELSE @,
                !.attacking_armies = alive(@),
                !.defending_armies = alive(@)]
        w1 == [w EXCEPT !.active_battles[i] = b]
        current_attack_strength == get_current_attack_strength(w1, b)
        current_defense_strength == get_current_defense_strength(w1, b)
    IN  IF ~b0.is_active THEN [w |-> w, active |-> FALSE]
        ELSE IF b.attacking_armies = <<>> \/ current_attack_strength = <<>>
        THEN [w |-> end_battle_defender_victory(w1, i), active |-> FALSE]
        ELSE IF b.defending_armies = <<>> /\ b.province_defense_strength.n = <<>>
        THEN [w |-> end_battle_attacker_victory(w1, i, r), active |-> FALSE]
        ELSE [w |-> apply_battle_damage(w1, i, current_attack_strength,
                                        current_defense_strength, m),
              active |-> TRUE]

\* Variant of Battle.update that looks for the attackers' victory first.
update_attackers_first(w, i, critical, m, r) ==
    LET b0 == w.active_battles[i]
        battle_duration == b0.battle_duration + 1
        alive(side) ==
            SelectSeq(side, LAMBDA a : w.army[a].strength > 0
                                       /\ InList(a, w.armies[w.army[a].owner]))
        b == [b0 EXCEPT
                !.battle_duration = battle_duration,
                !.damage_per_tick = IF battle_duration <= 3 /\ critical
                                    THEN @ * 10 ELSE @,
                !.attacking_armies = alive(@),
                !.defending_armies = alive(@)]
        w1 == [w EXCEPT !.active_battles[i] = b]
        current_attack_strength == get_current_attack_strength(w1, b)
        current_defense_strength == get_current_defense_strength(w1, b)
    IN  IF ~b0.is_active THEN [w |-> w, active |-> FALSE]
        ELSE IF b.defending_armies = <<>> /\ b.province_defense_strength.n = <<>>
        THEN [w |-> end_battle_attacker_victory(w1, i, r), active |-> FALSE]
        ELSE IF b.attacking_armies = <<>> \/ current_attack_strength = <<>>
        THEN [w |-> end_battle_defender_victory(w1, i), active |-> FALSE]
        ELSE IF battle_duration >= 2 * GAME_TICKS_PER_LOGICAL_SECOND
        THEN [w |-> end_battle_defender_victory(w1, i), active |-> FALSE]
        ELSE [w |-> apply_battle_damage(w1, i, current_attack_strength,
                                        current_defense_strength, m),
              active |-> TRUE]

\* Battle.update of battle number i: the world after it and whether the
\* battle goes on. critical is the draw for the critical tick, m the damage
\* multiplier in tenths, r the draw for a capital relocation.
update(w, i, critical, m, r) ==
    LET b0 == w.active_battles[i]
        battle_duration == b0.battle_duration + 1
        alive(side) ==
            SelectSeq(side, LAMBDA a : w.army[a].strength > 0
                                       /\ InList(a, w.armies[w.army[a].owner]))
        b == [b0 EXCEPT
                !.battle_duration = battle_duration,
                !.damage_per_tick = IF battle_duration <= 3 /\ critical
                                    THEN @ * 10 ELSE @,
                !.attacking_armies = alive(@),
                !.defending_armies = alive(@)]
        w1 == [w EXCEPT !.active_battles[i] = b]
        current_attack_strength == get_current_attack_strength(w1, b)
        current_defense_strength == get_current_defense_strength(w1, b)
    IN  IF ~b0.is_active THEN [w |-> w, active |-> FALSE]
        ELSE IF b.attacking_armies = <<>> \/ current_attack_strength = <<>>
        THEN [w |-> end_battle_defender_victory(w1, i), active |-> FALSE]
        ELSE IF b.defending_armies = <<>> /\ b.province_defense_strength.n = <<>>
        THEN [w |-> end_battle_attacker_victory(w1, i, r), active |-> FALSE]
        ELSE IF battle_duration >= 2 * GAME_TICKS_PER_LOGICAL_SECOND
        THEN [w |-> end_battle_defender_victory(w1, i), active |-> FALSE]
        ELSE [w |-> apply_battle_damage(w1, i, current_attack_strength,
                                        current_defense_strength, m),
              active |-> TRUE]

(* ---------------------------- BattleManager ---------------------------- *)
\* the battles over a province
BattlesAt(w, province) ==
    {i \in 1..Len(w.active_battles) : w.active_battles[i].province = province}

RECURSIVE set_in_battle(_, _)
set_in_battle(w, side) ==
    IF side = <<>> THEN w
    ELSE set_in_battle([w EXCEPT !.army[Head(side)].in_battle = TRUE], Tail(side))

\* Variant of the loop that appends without looking at the list.
RECURSIVE join_battle_unchecked(_, _, _)
join_battle_unchecked(w, i, attacking_armies) ==
    IF attacking_armies = <<>> THEN w
    ELSE LET a == Head(attacking_armies)
         IN  join_battle_unchecked(
                 [w EXCEPT !.active_battles[i].attacking_armies = Append(@, a),
                           !.army[a].in_battle = TRUE,
                           !.note = IF InList(a, w.active_battles[i].attacking_armies)
                                    THEN "listed" ELSE @],
                 i, Tail(attacking_armies))

\* the loop of start_battle over attacking_armies when battle number i is
\* over the province already; note records that an army was listed already
RECURSIVE join_battle(_, _, _)
join_battle(w, i, attacking_armies) ==
    IF attacking_armies = <<>> THEN w
    ELSE LET a == Head(attacking_armies)
         IN  join_battle(
                 IF ~InList(a, w.active_battles[i].attacking_armies)
                 THEN [w EXCEPT !.active_battles[i].attacking_armies = Append(@, a),
                                !.army[a].in_battle = TRUE]
                 ELSE [w EXCEPT !.note = "listed"],
                 i, Tail(attacking_armies))

\* Variant that opens a battle whether or not one is going on over the
\* province.
start_battle_anew(w, province, attacking_armies, defending_armies, province_defense_strength) ==
    LET new_battle == Battle(w, province, attacking_armies, defending_armies,
                             province_defense_strength)
        w1 == set_in_battle(w, attacking_armies \o defending_armies)
    IN  [w1 EXCEPT !.active_battles = Append(@, new_battle)]

\* BattleManager.start_battle
start_battle(w, province, attacking_armies, defending_armies, province_defense_strength) ==
    IF BattlesAt(w, province) # {}
    THEN join_battle(w, CHOOSE i \in BattlesAt(w, province) :
                           \A j \in BattlesAt(w, province) : i <= j,
                     attacking_armies)
    ELSE LET new_battle == Battle(w, province, attacking_armies, defending_armies,
                                  province_defense_strength)
             w1 == set_in_battle(w, attacking_armies \o defending_armies)
         IN  [w1 EXCEPT !.active_battles = Append(@, new_battle)]

\* the for loop of update_all_battles, from battle number i; completed is the
\* set of numbers of the battles that ended
RECURSIVE update_battles_from(_, _, _, _, _, _)
update_battles_from(w, i, completed, critical, m, r) ==
    IF i > Len(w.active_battles)
    THEN [w EXCEPT !.active_battles =
              LET keep == SetToSeq((1..Len(w.active_battles)) \ completed)
              IN  [j \in 1..Len(keep) |-> w.active_battles[keep[j]]]]
    ELSE LET s == update(w, i, critical, m, r)
         IN  update_battles_from(s.w, i + 1,
                                 IF s.active THEN completed ELSE completed \cup {i},
                                 critical, m, r)

\* BattleManager.update_all_battles
update_all_battles(w, critical, m, r) == update_battles_from(w, 1, {}, critical, m, r)

(* --------------------------- Army.engage_province ---------------------- *)
engage_province(w, a) ==
    LET self == w.army[a]
        current_province == self.current_province
    IN  IF w.owner[current_province] = None
        THEN LET w1 == add_province(w, self.owner, current_province, Keep, Keep)
                 w2 == IF self.mission_type # "defense"
                       THEN [w1 EXCEPT !.army[a].target_province = None,
                                       !.army[a].mission_type = "idle"]
                       ELSE w1
             IN  [w2 EXCEPT !.army[a].in_battle = FALSE,
                            !.army[a].combat_initiated = FALSE]
        ELSE IF self.in_battle
        THEN IF /\ self.mission_type = "defense"
                /\ w.owner[current_province] # self.owner
                /\ (self.defense_province_target = None
                    \/ current_province # self.defense_province_target)
             THEN retreat_to_friendly_territory(w, a)
             ELSE w
        ELSE IF /\ self.mission_type = "defense"
                /\ current_province = self.target_province
                /\ self.defense_province_target # None
                /\ w.owner[self.defense_province_target] = self.owner
        THEN w
        ELSE IF w.owner[current_province] = self.owner
        THEN LET w1 == IF self.mission_type # "defense"
                       THEN [w EXCEPT !.army[a].target_province = None,
                                      !.army[a].mission_type = "idle"]
                       ELSE w
             IN  [w1 EXCEPT !.army[a].combat_initiated = FALSE]
        ELSE LET enemy_country == w.owner[current_province]
                 defending_armies_in_province ==
                     SelectSeq(w.armies[enemy_country],
                               LAMBDA x : w.army[x].current_province = current_province
                                          /\ w.army[x].strength > 0)
                 province_defense_strength ==
                     [n |-> BN(w.population[current_province]), k |-> 0]
             IN  IF /\ self.mission_type = "defense"
                    /\ ~(self.defense_province_target # None
                         /\ current_province = self.defense_province_target)
                 THEN retreat_to_friendly_territory(w, a)
                 ELSE start_battle(w, current_province, <<a>>,
                                   defending_armies_in_province,
                                   province_defense_strength)

(* ------------------------------ the game ------------------------------- *)
\* The main loop runs, for each country in turn, the once-a-second block
\* (rebellion, army creation, orders, update_all_battles) and the per-frame
\* steps (the check of armies standing on foreign land, the army loop). The
\* per-frame steps of all countries are one action here, each step of the
\* once-a-second block is an action, and the actions are taken in any order. The growth, maintenance and disbanding steps of the block,
\* which change only population, GDP and the army lists, are not taken.

\* the armies some list still holds
Held(w) ==
    UNION {Range(w.armies[c]) : c \in Country}
    \cup UNION {Range(w.active_battles[i].attacking_armies)
                \cup Range(w.active_battles[i].defending_armies) :
                i \in 1..Len(w.active_battles)}

\* an Army object no list holds any more is gone: only its id stays taken
collect(w) ==
    [w EXCEPT !.army = [a \in ArmyId |->
        IF a \in Held(w) THEN @[a] ELSE [NoArmy EXCEPT !.owner = w.army[a].owner]]]

\* the step taken; the state before it is kept for the steps that take a
\* province from a country
Did(op, c, p, w) ==
    IF op = "rebellion"
    THEN [op |-> op, c |-> c, p |-> p, amount |-> 0, result |-> w.note, calls |-> 0,
          pre |-> Snapshot(World)]
    ELSE [NoCall EXCEPT !.op = op]

Step(op, c, p, w) ==
    /\ Install(collect(w))
    /\ ret' = Did(op, c, p, w)
    /\ UNCHANGED_map
    /\ UNCHANGED_ai

\* the state after world generation: country 1 starts in province 1 and
\* country 2 in province NProv - 1, the two ends of the row, each start
\* province with population 10,000 and GDP 1,000,000; the other provinces,
\* of 50 tiles, have no owner, population 100,000 and GDP 200,000
Init ==
    /\ Country_init
    /\ border_provinces = BordersOf(LineEdges)
    /\ is_coastal = [p \in Province |-> is_island(p)]
    /\ capital_province = [c \in Country |-> IF c = 1 THEN 1 ELSE NProv - 1]
    /\ owner = [p \in Province |->
                   IF p = 1 THEN 1 ELSE IF p = NProv - 1 THEN 2 ELSE None]
    /\ owned_provinces = [c \in Country |-> <<capital_province[c]>>]
    /\ population = [p \in Province |-> IF owner[p] # None THEN 20000 ELSE 200000]
    /\ gdp = [p \in Province |-> IF owner[p] # None THEN 2000000 ELSE 400000]
    /\ NoArmies

\* armies of the country standing in the province are dropped from its list
drop_armies_in(w, c, province) ==
    [w EXCEPT !.armies[c] =
        SelectSeq(@, LAMBDA x : w.army[x].current_province # province)]

\* A rebellion of country c in which the one province p is drawn; r is the
\* draw for a capital relocation.
Rebellion(c, p, r) ==
    /\ Len(owned_provinces[c]) > 1
    /\ InList(p, owned_provinces[c])
    /\ LET w1 == remove_province(World, c, p, r)
           w2 == [w1 EXCEPT !.owner[p] = None]
       IN  Step("rebellion", c, p, drop_armies_in(w2, c, p))

\* One round of the army creation loop of country c; i is the draw for the
\* spawn province. The military budget is 0.4 of the total GDP.
Recruit(c, i) ==
    LET eligible_provinces ==
            SelectSeq(owned_provinces[c],
                      LAMBDA p : is_island(p)
                                 \/ is_province_connected_to_capital(World, c, p))
    IN  /\ FreeIds(World) # {}
        /\ 2 * get_total_gdp(World, c) >= 5 * (4 * ARMY_BASE_STRENGTH)
        /\ owned_provinces[c] # <<>>
        /\ get_total_population(World, c) >= ARMY_BASE_STRENGTH
        /\ get_total_gdp(World, c) >= 4 * ARMY_BASE_STRENGTH
        /\ i \in 1..Len(eligible_provinces)
        /\ Step("create_army", c, eligible_provinces[i],
                create_army(World, c, eligible_provinces[i], ARMY_BASE_STRENGTH).w)

\* An order of the once-a-second block to an idle army a of country c: march
\* on the ownerless province p.
OrderAttack(c, a, p) ==
    /\ InList(a, armies[c])
    /\ army[a].strength > 0
    /\ army[a].mission_type \notin {"defense", "garrison"}
    /\ ~army[a].in_battle
    /\ IF army[a].target_province = None THEN TRUE
       ELSE owner[army[a].target_province] = None
    /\ owner[p] = None
    /\ Step("set_target", c, p,
            [set_target(World, a, p) EXCEPT !.army[a].mission_type = "attack"])

\* the check of the armies of a country standing on foreign land
RECURSIVE sweep(_, _)
sweep(w, list) ==
    IF list = <<>> THEN w
    ELSE LET a == Head(list)
             x == w.army[a]
             province_owner == w.owner[x.current_province]
         IN  sweep(IF /\ province_owner # None
                      /\ province_owner # x.owner
                      /\ ~x.is_moving
                      /\ ~x.in_battle
                      /\ ~x.combat_initiated
                   THEN engage_province([w EXCEPT !.army[a].combat_initiated = TRUE], a)
                   ELSE w,
                   Tail(list))

\* the loop over list(country.armies)
RECURSIVE army_loop(_, _, _)
army_loop(w, c, list) ==
    IF list = <<>> THEN w
    ELSE LET a == Head(list)
         IN  IF w.army[a].strength <= 0
             THEN army_loop([w EXCEPT !.armies[c] = ListRemove(@, a)], c, Tail(list))
             ELSE LET w1 == update_animation(w, a)
                      x == w1.army[a]
                  IN  army_loop(IF /\ ~x.is_moving
                                   /\ x.target_province # None
                                   /\ x.current_province = x.target_province
                                THEN engage_province(w1, a)
                                ELSE w1,
                                c, Tail(list))

\* the per-frame steps of the main loop, for each country in turn: the check
\* of its armies standing on foreign land, then its army loop
RECURSIVE frame(_, _)
frame(w, c) ==
    IF c > NCountry THEN w
    ELSE LET w1 == sweep(w, w.armies[c])
         IN  frame(army_loop(w1, c, w1.armies[c]), c + 1)

\* n frames, one after the other; a frame that changes nothing ends them,
\* the frames after it changing nothing either
RECURSIVE frames(_, _)
frames(w, n) ==
    IF n = 0 THEN w
    ELSE LET w1 == frame(w, 1)
         IN  IF w1 = w THEN w ELSE frames(w1, n - 1)

\* the frames of one second
Frames ==
    /\ \E c \in Country : armies[c] # <<>>
    /\ Step("frames", None, None, frames(World, GAME_TICKS_PER_LOGICAL_SECOND))

\* update_all_battles with one draw of the critical tick and of the damage
\* multiplier (0.7 or 1.3, the ends of its range) for the battles of this
\* tick; r matters only when a capital can fall
UpdateAllBattles(critical, m, r) ==
    /\ active_battles # <<>>
    /\ Step("update_all_battles", None, None,
            update_all_battles(World, critical, m, r))

Next ==
    \/ \E c \in Country, p \in Province :
          \E r \in IF p = capital_province[c] THEN 0..1 ELSE {0} : Rebellion(c, p, r)
    \/ \E c \in Country, i \in Province : Recruit(c, i)
    \/ \E c \in Country, a \in ArmyId, p \in Province : OrderAttack(c, a, p)
    \/ Frames
    \/ \E critical \in BOOLEAN, m \in {7, 13} :
          \E r \in IF \E i \in 1..Len(active_battles) :
                        LET b == active_battles[i]
                        IN  /\ b.original_province_owner # None
                            /\ b.province = capital_province[b.original_province_owner]
                     THEN 0..1 ELSE {0} :
             UpdateAllBattles(critical, m, r)

Spec == Init /\ [][Next]_vars

C3_CapitalListed ==
    \A c \in Country :
        capital_province[c] # None => InList(capital_province[c], owned_provinces[c])

\* a rebellion took the capital of a country and the capital moved to
\* another of its provinces
C3_Witness ==
    /\ ret.op = "rebellion"
    /\ ret.pre.capital_province[ret.c] = ret.p
    /\ capital_province[ret.c] # None
    /\ capital_province[ret.c] # ret.p
    /\ ~InList(ret.p, owned_provinces[ret.c])

\* C4: a province that had an owner and has none after a step has population
\* 0 and GDP 0 after that step.
C4_LostMeansEmpty ==
    [][\A p \in Province :
          owner[p] # None /\ owner'[p] = None
              => population'[p] = 0 /\ gdp'[p] = 0]_vars

\* a rebellion made ownerless a province that had population and GDP
C4_Witness ==
    /\ ret.op = "rebellion"
    /\ ret.pre.owner[ret.p] = ret.c
    /\ ret.pre.population[ret.p] > 0
    /\ ret.pre.gdp[ret.p] > 0
    /\ owner[ret.p] = None
    /\ population[ret.p] = 0
    /\ gdp[ret.p] = 0

(* ----------------------- start_battle, by itself ----------------------- *)
MaxStarts == 3

\* the game after each country has created an army in its capital and the
\* armies have marched to any provinces
InitBattle ==
    /\ Country_init
    /\ border_provinces = BordersOf(LineEdges)
    /\ is_coastal = [p \in Province |-> is_island(p)]
    /\ capital_province = [c \in Country |-> IF c = 1 THEN 1 ELSE NProv - 1]
    /\ \E at \in [Country -> Province] :
          LET start == [owner |-> [p \in Province |->
                                      IF p = 1 THEN 1
                                      ELSE IF p = NProv - 1 THEN 2 ELSE None],
                        population |-> [p \in Province |->
                                      IF p \in {1, NProv - 1} THEN 20000 ELSE 200000],
                        gdp |-> [p \in Province |->
                                      IF p \in {1, NProv - 1} THEN 2000000 ELSE 400000],
                        owned_provinces |-> [c \in Country |-> <<capital_province[c]>>],
                        capital_province |-> capital_province,
                        armies |-> [c \in Country |-> <<>>],
                        army |-> [a \in ArmyId |-> NoArmy],
                        active_battles |-> <<>>,
                        note |-> "none"]
              w1 == create_army(start, 1, 1, ARMY_BASE_STRENGTH).w
              w2 == create_army(w1, 2, NProv - 1, ARMY_BASE_STRENGTH).w
              w3 == [w2 EXCEPT !.army =
                        [a \in ArmyId |->
                            IF w2.army[a].owner = None THEN w2.army[a]
                            ELSE [w2.army[a] EXCEPT
                                    !.current_province = at[w2.army[a].owner]]]]
          IN  /\ owner = w3.owner
              /\ population = w3.population
              /\ gdp = w3.gdp
              /\ owned_provinces = w3.owned_provinces
              /\ armies = w3.armies
              /\ army = w3.army
    /\ active_battles = <<>>
    /\ ret = NoCall

\* start_battle(province, [a], defenders, province_defense_strength) with
\* the defenders and the defense strength engage_province passes for the
\* province
StartBattle(province, a) ==
    /\ ret.calls < MaxStarts
    /\ army[a].owner # None
    /\ LET defending_armies ==
               IF owner[province] = None THEN <<>>
               ELSE SelectSeq(armies[owner[province]],
                              LAMBDA x : army[x].current_province = province
                                         /\ army[x].strength > 0)
           w == start_battle(World, province, <<a>>, defending_armies,
                             [n |-> BN(population[province]), k |-> 0])
       IN  /\ Install(w)
           /\ ret' = Call("start_battle", army[a].owner, province, a, w.note)
    /\ UNCHANGED_map
    /\ UNCHANGED_ai

NextBattle == \E province \in Province, a \in ArmyId : StartBattle(province, a)

SpecBattle == InitBattle /\ [][NextBattle]_vars

\* C9: however often start_battle is called for a province with the same
\* attacking army, the army is listed once among the battle's attackers and
\* the province has one battle.
C9_StartBattleIdempotent ==
    /\ \A i \in 1..Len(active_battles) :
          \A a \in ArmyId : Count(a, active_battles[i].attacking_armies) <= 1
    /\ \A i, j \in 1..Len(active_battles) :
          active_battles[i].province = active_battles[j].province => i = j

\* start_battle was called for a province whose battle listed the army
\* already
C9_Witness ==
    /\ ret.op = "start_battle"
    /\ ret.result = "listed"
    /\ \E i \in 1..Len(active_battles) :
          /\ active_battles[i].province = ret.p
          /\ Count(ret.amount, active_battles[i].attacking_armies) = 1

(* --------------------------- one battle, by itself --------------------- *)
\* the strength of the armies country 1 sends
SiegeStrengths == {10, 50, 1000}

\* an army of country 1 standing on the capital of country 2, its target,
\* at the end of its march
Besieger(strength) ==
    [Army(1, NProv - 1, strength) EXCEPT !.target_province = NProv - 1,
                                         !.mission_type = "attack",
                                         !.move_progress = 5]

\* Country 1 holds province 1, or provinces 1 and 2, and has one army
\* standing on the capital of country 2; the army has strength 10, 50 or
\* 1000, the province population 4,000 or 200,000 (defense strength 2 or
\* 100) and GDP 1,000,000 or 700,000, and country 2 has no army there or
\* one of strength 98.
InitSiege ==
    /\ Country_init
    /\ border_provinces = BordersOf(LineEdges)
    /\ is_coastal = [p \in Province |-> is_island(p)]
    /\ capital_province = [c \in Country |-> IF c = 1 THEN 1 ELSE NProv - 1]
    /\ \E held \in {<<1>>, <<1, 2>>} :
          /\ owned_provinces = [c \in Country |->
                                   IF c = 1 THEN held ELSE <<NProv - 1>>]
          /\ owner = [p \in Province |->
                         IF InList(p, held) THEN 1
                         ELSE IF p = NProv - 1 THEN 2 ELSE None]
    /\ \E h \in {2 * 4000, 2 * 200000} :
          population = [p \in Province |->
                           IF p = NProv - 1 THEN h
                           ELSE IF p = 1 THEN 20000 ELSE 200000]
    /\ \E g \in {2 * 1000000, 2 * 700000} :
          gdp = [p \in Province |->
                    IF p = 1 THEN 2000000
                    ELSE IF p = NProv - 1 THEN g ELSE 400000]
    /\ \E strength \in SiegeStrengths, defender \in {0, 98} :
          /\ army = [a \in ArmyId |->
                        IF a = 1 THEN Besieger(strength)
                        ELSE IF a = 2 /\ defender > 0
                        THEN Army(2, NProv - 1, defender)
                        ELSE NoArmy]
          /\ armies = [c \in Country |->
                          IF c = 1 THEN <<1>>
                          ELSE IF defender > 0 THEN <<2>> ELSE <<>>]
    /\ active_battles = <<>>
    /\ ret = [op |-> "none", c |-> 1, p |-> NProv - 1, amount |-> army[1].strength,
              result |-> "none", calls |-> 0, pre |-> Snapshot(World),
              world |-> World, critical |-> FALSE,
              defense |-> army[2].strength + population[NProv - 1] \div 4000]

\* the strength of the armies of country 1 (amount) and the defenders' plus
\* the province's (defense) at the start, the number of update_all_battles
\* calls so far, the state before the step, whether a critical tick was drawn
\* so far, and the outcome
SiegeCall(op, w, critical) ==
    [op |-> op, c |-> 1, p |-> NProv - 1, amount |-> ret.amount,
     result |-> w.note,
     calls |-> IF op = "update_all_battles" THEN ret.calls + 1 ELSE ret.calls,
     pre |-> Snapshot(World), world |-> World,
     critical |-> critical, defense |-> ret.defense]

\* the army loop of country 1: its army, on its target, engages the province
SiegeEngage ==
    /\ ret.op = "none"
    /\ LET w == army_loop(World, 1, armies[1])
       IN  /\ Install(w)
           /\ ret' = SiegeCall("army_loop", w, ret.critical)
    /\ UNCHANGED_map
    /\ UNCHANGED_ai

\* Country 1, its army lost, has created another of the same strength, and
\* the new army ends its march on the province as the first did: the army
\* loop of country 1 has it engage the province. An Army object that no list
\* holds is gone, and its number is free.
SiegeReinforce ==
    /\ active_battles # <<>>
    /\ armies[1] = <<>>
    /\ ArmyId \ Held(World) # {}
    /\ LET a == CHOOSE x \in ArmyId \ Held(World) : TRUE
           w == army_loop([World EXCEPT !.army[a] = Besieger(ret.amount),
                                        !.armies[1] = <<a>>],
                          1, <<a>>)
       IN  /\ Install(w)
           /\ ret' = SiegeCall("create_army", w, ret.critical)
    /\ UNCHANGED_map
    /\ UNCHANGED_ai

\* update_all_battles
SiegeTick(critical, m) ==
    /\ active_battles # <<>>
    /\ LET w == update_all_battles(World, critical, m, 0)
       IN  /\ Install(w)
           /\ ret' = SiegeCall("update_all_battles", w,
                        ret.critical
                        \/ (critical /\ active_battles[1].battle_duration + 1 <= 3))
    /\ UNCHANGED_map
    /\ UNCHANGED_ai

NextSiege ==
    \/ SiegeEngage
    \/ SiegeReinforce
    \/ \E critical \in BOOLEAN, m \in {7, 10, 13} : SiegeTick(critical, m)

SpecSiege == InitSiege /\ [][NextSiege]_vars

\* the last step was update_all_battles
Updated == ret.op = "update_all_battles"

\* the battle as it was before the last step
BattleBefore == ret.world.active_battles[1]

\* the battle of the last update ended in that update
SiegeEnded == Updated /\ active_battles = <<>>

\* no army of country 1 came after the first
NoReinforcement == \A a \in ArmyId : army[a].owner = 1 => a = 1

\* C11: the battle of one army of strength 50 against a province of
\* population 4,000 without defending armies is over after at most two
\* updates, whatever the draws, and ends in the attacker's victory.
C11_Strength50Wins ==
    ret.amount = 50 /\ ret.defense = 2 /\ Updated /\ NoReinforcement
    => /\ ret.calls >= 2 => active_battles = <<>>
       /\ SiegeEnded => ret.result = "attacker_victory"

\* C12: with strength 1000 on the attacker's side against 100 on the
\* defender's, the GDP bonus the same on both sides, and no critical tick
\* drawn, the battle is over after two updates and ends in the attacker's
\* victory before battle_duration reaches max_battle_duration.
C12_Strength1000Wins ==
    ret.amount = 1000 /\ ret.defense = 100 /\ ~ret.critical /\ Updated
    => /\ ret.calls >= 2 => active_battles = <<>>
       /\ SiegeEnded =>
             /\ ret.result = "attacker_victory"
             /\ owner[NProv - 1] = 1
             /\ BattleBefore.battle_duration + 1 < 2 * GAME_TICKS_PER_LOGICAL_SECOND

\* the battle against an army of 98 and a province of defense 2 ended in the
\* attacker's victory without a critical tick
C12_Witness ==
    /\ ret.amount = 1000 /\ ret.defense = 100 /\ ~ret.critical
    /\ ret.pre.population[NProv - 1] = 2 * 4000
    /\ SiegeEnded
    /\ ret.result = "attacker_victory"
    /\ owner[NProv - 1] = 1

\* C13: a battle in active_battles is active and has had fewer than
\* max_battle_duration updates: the update that is its 60th at the latest
\* ends it, and the update_all_battles call in which a battle ends takes it
\* from the list.
C13_BattleEnds ==
    /\ \A i \in 1..Len(active_battles) :
          /\ active_battles[i].is_active
          /\ active_battles[i].battle_duration < 2 * GAME_TICKS_PER_LOGICAL_SECOND
    /\ Updated /\ ret.result \in {"attacker_victory", "defender_victory"}
       => active_battles = <<>>

\* a battle kept up by new armies ended with its 60th update, the attackers
\* still standing, and left the list
C13_Witness ==
    /\ Updated
    /\ BattleBefore.battle_duration = 2 * GAME_TICKS_PER_LOGICAL_SECOND - 1
    /\ ret.result = "defender_victory"
    /\ armies[1] # <<>>
    /\ active_battles = <<>>

\* the armies of a side of the battle that, before the last step, had
\* strength left and were in their owner's list
Standing(side) ==
    SelectSeq(side, LAMBDA a :
        /\ ret.world.army[a].strength > 0
        /\ InList(a, ret.world.armies[ret.world.army[a].owner]))

\* the outcome of an update by the order of the checks: no attacker standing
\* is the defender's victory; else no defender standing and no province
\* defense is the attacker's; else the 60th update is the defender's; else
\* the battle goes on
Verdict ==
    IF Standing(BattleBefore.attacking_armies) = <<>>
    THEN "defender_victory"
    ELSE IF /\ Standing(BattleBefore.defending_armies) = <<>>
            /\ BattleBefore.province_defense_strength.n = <<>>
    THEN "attacker_victory"
    ELSE IF BattleBefore.battle_duration + 1 >= 2 * GAME_TICKS_PER_LOGICAL_SECOND
    THEN "defender_victory"
    ELSE "none"

\* C14: an update counts only the armies with strength left that are in
\* their owner's list, ends the battle by the first check that applies, in
\* the order defender's victory, attacker's victory, timeout, and otherwise
\* damages the standing attackers and leaves the battle in the list with
\* the standing armies as its sides.
C14_OrderOfChecks ==
    Updated =>
       /\ ret.result = Verdict
       /\ Verdict # "none" => active_battles = <<>>
       /\ Verdict = "none" =>
             /\ Len(active_battles) = 1
             /\ active_battles[1].is_active
             /\ active_battles[1].battle_duration = BattleBefore.battle_duration + 1
             /\ active_battles[1].attacking_armies
                    = Standing(BattleBefore.attacking_armies)
             /\ active_battles[1].defending_armies
                    = Standing(BattleBefore.defending_armies)
             /\ \A a \in Range(active_battles[1].attacking_armies) :
                   army[a].strength < ret.world.army[a].strength

\* the update found neither an attacker nor a defender standing and no
\* province defense left, and the defender won
C14_Witness ==
    /\ Updated
    /\ BattleBefore.attacking_armies # <<>>
    /\ Standing(BattleBefore.attacking_armies) = <<>>
    /\ Standing(BattleBefore.defending_armies) = <<>>
    /\ BattleBefore.province_defense_strength.n = <<>>
    /\ ret.result = "defender_victory"
    /\ owner[NProv - 1] = 2

\* the countries of the strongest of the attackers standing before the
\* last step
Winners ==
    LET side == Standing(BattleBefore.attacking_armies)
    IN  {ret.world.army[a].owner : a \in
            {x \in Range(side) : \A y \in Range(side) :
                ret.world.army[x].strength >= ret.world.army[y].strength}}

\* C15: after the attackers' victory the owner the province had when the
\* battle began does not own it, its owner is the country of the strongest
\* standing attacker, its population is floor(98%) and its GDP floor(70%) of
\* what they were before the update, every attacker without a defense
\* mission is idle without a target, and no participant is in battle.
C15_AttackerVictory ==
    Updated /\ ret.result = "attacker_victory" =>
       LET b == BattleBefore
           province == b.province
           sides == Standing(b.attacking_armies) \o Standing(b.defending_armies)
       IN  /\ owner[province] # b.original_province_owner
           /\ ~InList(province, owned_provinces[b.original_province_owner])
           /\ owner[province] \in Winners
           /\ InList(province, owned_provinces[owner[province]])
           /\ population[province]
                  = 2 * ((49 * ret.world.population[province]) \div 100)
           /\ gdp[province] = 2 * ((7 * ret.world.gdp[province]) \div 20)
           /\ \A a \in Range(Standing(b.attacking_armies)) :
                 ret.world.army[a].mission_type # "defense"
                 => army[a].mission_type = "idle" /\ army[a].target_province = None
           /\ \A a \in Range(sides) : ~army[a].in_battle

\* C16: after the defender's victory every attacker standing whose country
\* owns a province is in the province of its country nearest to the
\* battle's, without a target; the standing defenders are where they were;
\* owners, lists, population and GDP are as before the update; and no
\* participant is in battle.
C16_DefenderVictory ==
    Updated /\ ret.result = "defender_victory" =>
       LET b == BattleBefore
           before == ret.world
           attackers == Range(Standing(b.attacking_armies))
           defenders == Range(Standing(b.defending_armies))
       IN  /\ \A a \in attackers :
                 LET owned == before.owned_provinces[before.army[a].owner]
                 IN  owned # <<>> =>
                        /\ InList(army[a].current_province, owned)
                        /\ \A j \in 1..Len(owned) :
                              distance(b.province, army[a].current_province)
                                  <= distance(b.province, owned[j])
                        /\ army[a].target_province = None
           /\ \A a \in defenders :
                 army[a].current_province = before.army[a].current_province
           /\ owner = before.owner
           /\ owned_provinces = before.owned_provinces
           /\ capital_province = before.capital_province
           /\ population = before.population
           /\ gdp = before.gdp
           /\ \A a \in attackers \cup defenders : ~army[a].in_battle

\* the battle ended with its 60th update while an army of country 1, which
\* holds provinces 1 and 2, stood in it: the army is in province 2 now
C16_Witness ==
    /\ Updated /\ ret.result = "defender_victory"
    /\ Standing(BattleBefore.attacking_armies) # <<>>
    /\ owned_provinces[1] = <<1, 2>>
    /\ \A a \in Range(BattleBefore.attacking_armies) :
          army[a].strength > 0 =>
             /\ ret.world.army[a].current_province = NProv - 1
             /\ army[a].current_province = 2
             /\ army[a].target_province = None

(* ------------------ the province's own defense in a tick --------------- *)
\* the last step was an update in which the battle went on: it applied the
\* damage of a tick
DamageTick == Updated /\ ret.world.active_battles # <<>> /\ active_battles # <<>>

\* the two strengths the update of the last step compared
AttackBefore == get_current_attack_strength(ret.world, BattleBefore)

DefenseBefore == get_current_defense_strength(ret.world, BattleBefore)

\* attack / (attack + defense) >= 0.4
AttackShareAtLeast04 ==
    ~BNLess(BNMulDigit(AttackBefore, 3, 0), BNMulDigit(DefenseBefore, 2, 0))

\* defense / (attack + defense) >= 0.4
DefenseShareAtLeast04 ==
    ~BNLess(BNMulDigit(DefenseBefore, 3, 0), BNMulDigit(AttackBefore, 2, 0))

\* province_defense_strength before and after the tick
DefenseOfProvinceBefore == BattleBefore.province_defense_strength

DefenseOfProvinceAfter == active_battles[1].province_defense_strength

\* the tick took rate * province_defense_strength from it, and no more
\* than all of it: all of it at a defender-side rate of 1 or more (the rate
\* is 1 or more when the attackers are dominant and after a critical tick),
\* and 0.28, 0.4 or 0.52 of it at the rate of the dominant defenders
ReducedByDefenderRate ==
    IF \/ BNLess(DefenseBefore, AttackBefore)
       \/ active_battles[1].damage_per_tick > 2
       \/ DefenseOfProvinceBefore.n = <<>>
    THEN DefenseOfProvinceAfter.n = <<>>
    ELSE /\ DefenseOfProvinceAfter.k = DefenseOfProvinceBefore.k + 1
         /\ \E left \in {18, 15, 12} :
               DefenseOfProvinceAfter.n = BNMulDigit(DefenseOfProvinceBefore.n, left, 0)

\* C31 as stated: a damage tick in which the share of the defending side in
\* the combined strength is below 0.4 leaves province_defense_strength as
\* it was, and a tick changes it only by the defender-side rate.
C31_AsStated ==
    DamageTick =>
        IF DefenseShareAtLeast04
        THEN ReducedByDefenderRate \/ DefenseOfProvinceAfter = DefenseOfProvinceBefore
        ELSE DefenseOfProvinceAfter = DefenseOfProvinceBefore

\* C31: a damage tick reduces province_defense_strength by the
\* defender-side rate, to no less than 0, exactly when the share of the
\* attacking side in the combined strength is 0.4 or more; when the share of
\* the attackers is below 0.4 the tick leaves it as it was.
C31_ByAttackShare ==
    DamageTick =>
        IF AttackShareAtLeast04
        THEN ReducedByDefenderRate
        ELSE DefenseOfProvinceAfter = DefenseOfProvinceBefore

\* a tick with the attackers' share below 0.4 has left a province's defense
\* above 0 as it was
C31_Witness ==
    /\ DamageTick
    /\ ~AttackShareAtLeast04
    /\ DefenseOfProvinceBefore.n # <<>>
    /\ DefenseOfProvinceAfter = DefenseOfProvinceBefore

\* a tick with the defenders' share below 0.4 has taken all of a province's
\* defense
C31_WitnessOverwhelmed ==
    /\ DamageTick
    /\ ~DefenseShareAtLeast04
    /\ DefenseOfProvinceBefore.n # <<>>
    /\ DefenseOfProvinceAfter.n = <<>>

\* a tick with the attackers' share between 0.4 and 0.5 has taken a part of
\* a province's defense
C31_WitnessPart ==
    /\ DamageTick
    /\ AttackShareAtLeast04
    /\ DefenseOfProvinceAfter.n # <<>>
    /\ DefenseOfProvinceAfter.k = DefenseOfProvinceBefore.k + 1

(* ---------------------- the main loop, phase by phase ------------------- *)
\* One pass of the while loop is a turn; in a turn the loop body runs for
\* each country in turn. turn stands for game_current_turn and for the
\* time_elapsed of every country, which are equal. ret holds the phase run
\* last (op), the country it ran for (c), the turn, and the number of phases
\* the country has been through in the turn (k).
MaxTurns == 61

\* the number of armies the creation loop makes in one turn at most (in the
\* code MAX_ARMIES_PER_TURN_BUDGET)
MaxNewArmies == 1

GDP_LOW_THRESHOLD == 100000

second(turn) == turn % GAME_TICKS_PER_LOGICAL_SECOND = 0

\* Variant with the army loop before the orders and the battles.
phases_movement_first(turn) ==
    IF second(turn)
    THEN <<"accrual", "rebellion", "maintenance", "disbanding", "creation",
           "decay", "cleanup", "movement", "strategy", "battles">>
    ELSE <<"decay", "cleanup", "movement">>

\* the blocks of the loop body in the order of the source text; the first
\* five and "strategy" and "battles" are under
\* if country.time_elapsed % GAME_TICKS_PER_LOGICAL_SECOND == 0
phases(turn) ==
    IF second(turn)
    THEN <<"accrual", "rebellion", "maintenance", "disbanding", "creation",
           "decay", "cleanup", "strategy", "battles", "movement">>
    ELSE <<"decay", "cleanup", "movement">>

\* the turn, the country and the number of the phase that runs next
upcoming ==
    IF ret.k < Len(phases(ret.turn))
    THEN [turn |-> ret.turn, c |-> ret.c, k |-> ret.k + 1]
    ELSE IF ret.c < NCountry
    THEN [turn |-> ret.turn, c |-> ret.c + 1, k |-> 1]
    ELSE [turn |-> ret.turn + 1, c |-> 1, k |-> 1]

Due(name) ==
    /\ upcoming.turn <= MaxTurns
    /\ phases(upcoming.turn)[upcoming.k] = name

TickStep(name, w) ==
    /\ Install(collect(w))
    /\ ret' = [op |-> name, c |-> upcoming.c, turn |-> upcoming.turn,
               k |-> upcoming.k]
    /\ UNCHANGED_map
    /\ UNCHANGED_ai

\* The GDP values g (multiples of 400 up to 18,236,000) for which the double
\* product g * 0.0575 falls just below the whole number 23g/400, as
\* <<first, last>> ranges.
RoundsBelowGrowth ==
    << <<2000, 2000>>, <<3600, 4400>>, <<6800, 8800>>, <<13200, 17600>>,
       <<26000, 35600>>, <<51600, 71200>>, <<102800, 142400>>,
       <<205200, 284800>>, <<410000, 569600>>, <<819600, 1139600>>,
       <<1638800, 2279200>>, <<3277200, 4558800>>, <<6554000, 9118000>>,
       <<13107600, 18236000>> >>

\* int(p.gdp * gdp_growth_rate) of the doubled GDP h, doubled, for the
\* economy share 0.3: gdp_growth_rate = 0.05 * (1 + 0.3 * 0.5)
gdp_growth(h) ==
    LET a == IF h < 0 THEN 0 - h ELSE h     \* int() rounds towards 0
        v == IF a % 800 = 0 /\ InRanges(a \div 2, RoundsBelowGrowth)
             THEN 2 * ((23 * a) \div 800 - 1)
             ELSE 2 * ((23 * a) \div 800)
    IN  IF h < 0 THEN 0 - v ELSE v

\* the same for the economy share the country has: 0.3, or -82, for which
\* gdp_growth_rate = 0.05 * (1 + -82 * 0.5) is -2.0 and the product is exact
gdp_growth_at(h, economy) ==
    CASE economy = 30 -> gdp_growth(h)
      [] economy = 0 - 8200 -> 0 - 2 * h

\* the growth loop over country.owned_provinces
RECURSIVE grow(_, _, _)
grow(w, list, economy) ==
    IF list = <<>> THEN w
    ELSE LET p == Head(list)
         IN  grow([w EXCEPT !.population[p] = @ + 2 * (@ \div 200),
                            !.gdp[p] = @ + gdp_growth_at(@, economy)],
                  Tail(list), economy)

\* Country.add_gdp; amount is doubled
add_gdp(w, c, amount) ==
    IF w.owned_provinces[c] = <<>> THEN w
    ELSE LET target_province ==
                 IF /\ w.capital_province[c] # None
                    /\ InList(w.capital_province[c], w.owned_provinces[c])
                 THEN w.capital_province[c]
                 ELSE w.owned_provinces[c][1]
         IN  [w EXCEPT !.gdp[target_province] = @ + amount]

\* 1. growth of population and GDP, and the fixed boost of
\* 250 * (1 + economy share), doubled; economy is in hundredths
accrue(w, c, economy) ==
    add_gdp(grow(w, w.owned_provinces[c], economy), c, 500 + 5 * economy)

\* the rebellion of one province
rebel(w, c, p, r) ==
    drop_armies_in([remove_province(w, c, p, r) EXCEPT !.owner[p] = None], c, p)

\* Country.get_total_army_strength
get_total_army_strength(w, c) ==
    SumOver(w.armies[c],
            [a \in ArmyId |-> IF w.army[a].strength > 0 THEN w.army[a].strength ELSE 0])

\* 2. the maintenance charge: 0.5 GDP for each unit of strength
maintain(w, c) ==
    LET maintenance_cost == get_total_army_strength(w, c)
    IN  IF maintenance_cost > 0 THEN deduct_gdp(w, c, maintenance_cost).w ELSE w

\* 3. the disbanding loop: current_gdp is read once, before the loop, so
\* the loop goes on until the list is empty
disband(w, c) ==
    IF get_total_gdp(w, c) < 2 * GDP_LOW_THRESHOLD
    THEN [w EXCEPT !.armies[c] = <<>>]
    ELSE w

\* 4. the creation loop; military_budget_gdp is kept as ten times its value
\* (0.4 of the total GDP), r is the draw for the spawn province
\* military_budget_gdp = total_gdp * ratio, in twentieths of the doubled GDP;
\* ratio is in hundredths
military_budget(total_gdp, ratio) ==
    (ratio \div 20) * total_gdp + ((ratio % 20) * total_gdp) \div 20

\* the most armies the creation loop makes in one turn, and the length of
\* the armies list at which it stops
MAX_ARMIES_PER_TURN_BUDGET == 50

ArmyListLimit == 20

\* Variant of the creation loop without the test of the length of the list.
RECURSIVE creation_without_limit(_, _, _, _, _)
creation_without_limit(w, c, military_budget_gdp, armies_created_this_turn, r) ==
    LET eligible_provinces ==
            SelectSeq(w.owned_provinces[c],
                      LAMBDA p : is_island(p)
                                 \/ is_province_connected_to_capital(w, c, p))
    IN  IF ~(/\ military_budget_gdp >= 5 * (4 * ARMY_BASE_STRENGTH)
             /\ w.owned_provinces[c] # <<>>
             /\ armies_created_this_turn < MAX_ARMIES_PER_TURN_BUDGET
             /\ armies_created_this_turn < MaxNewArmies
             /\ FreeIds(w) # {})
        THEN w
        ELSE IF \/ get_total_population(w, c) < ARMY_BASE_STRENGTH
                \/ get_total_gdp(w, c) < 4 * ARMY_BASE_STRENGTH
        THEN w
        ELSE IF eligible_provinces = <<>> THEN w
        ELSE LET s == create_army(w, c, choice(eligible_provinces, r),
                                  ARMY_BASE_STRENGTH)
             IN  IF s.result # None
                 THEN creation_without_limit(s.w, c,
                               military_budget_gdp - 5 * (4 * ARMY_BASE_STRENGTH),
                               armies_created_this_turn + 1, r)
                 ELSE s.w

RECURSIVE creation(_, _, _, _, _)
creation(w, c, military_budget_gdp, armies_created_this_turn, r) ==
    LET eligible_provinces ==
            SelectSeq(w.owned_provinces[c],
                      LAMBDA p : is_island(p)
                                 \/ is_province_connected_to_capital(w, c, p))
    IN  IF ~(/\ military_budget_gdp >= 5 * (4 * ARMY_BASE_STRENGTH)
             /\ w.owned_provinces[c] # <<>>
             /\ armies_created_this_turn < MAX_ARMIES_PER_TURN_BUDGET
             /\ Len(w.armies[c]) < ArmyListLimit
             /\ armies_created_this_turn < MaxNewArmies
             /\ FreeIds(w) # {})
        THEN w
        ELSE IF \/ get_total_population(w, c) < ARMY_BASE_STRENGTH
                \/ get_total_gdp(w, c) < 4 * ARMY_BASE_STRENGTH
        THEN w
        ELSE IF eligible_provinces = <<>> THEN w
        ELSE LET s == create_army(w, c, choice(eligible_provinces, r),
                                  ARMY_BASE_STRENGTH)
             IN  IF s.result # None
                 THEN creation(s.w, c,
                               military_budget_gdp - 5 * (4 * ARMY_BASE_STRENGTH),
                               armies_created_this_turn + 1, r)
                 ELSE s.w

\* Country.get_isolated_provinces
get_isolated_provinces(w, c) ==
    IF w.capital_province[c] = None THEN w.owned_provinces[c]
    ELSE SelectSeq(w.owned_provinces[c],
                   LAMBDA p : ~is_island(p)
                              /\ ~is_province_connected_to_capital(w, c, p))

\* the inner loop of the isolation decay: int(army.strength * 0.95)
RECURSIVE weaken(_, _, _)
weaken(w, c, list) ==
    IF list = <<>> THEN w
    ELSE LET a == Head(list)
             strength == (19 * w.army[a].strength) \div 20
         IN  weaken([w EXCEPT !.army[a].strength = strength,
                              !.armies[c] = IF strength <= 100
                                            THEN ListRemove(@, a) ELSE @],
                    c, Tail(list))

\* the isolation decay, over the isolated provinces
RECURSIVE decay(_, _, _)
decay(w, c, isolated_provinces) ==
    IF isolated_provinces = <<>> THEN w
    ELSE decay(weaken(w, c,
                      SelectSeq(w.armies[c],
                                LAMBDA a : w.army[a].current_province
                                               = Head(isolated_provinces))),
               c, Tail(isolated_provinces))

\* the armies the orders are for
idle_armies_for_offense(w, c) ==
    SelectSeq(w.armies[c],
              LAMBDA a :
                  /\ w.army[a].strength > 0
                  /\ w.army[a].mission_type \notin {"defense", "garrison"}
                  /\ ~w.army[a].in_battle
                  /\ IF w.army[a].target_province = None THEN TRUE
                     ELSE w.owner[w.army[a].target_province] = None)

\* set_target and mission_type = "attack" for the armies f gives a target
RECURSIVE order_armies(_, _, _)
order_armies(w, list, f) ==
    IF list = <<>> THEN w
    ELSE LET a == Head(list)
         IN  order_armies(IF f[a] # None
                          THEN [set_target(w, a, f[a]) EXCEPT
                                   !.army[a].mission_type = "attack"]
                          ELSE w,
                          Tail(list), f)

InitTick ==
    /\ Country_init
    /\ border_provinces = BordersOf(LineEdges)
    /\ is_coastal = [p \in Province |-> is_island(p)]
    /\ capital_province = [c \in Country |-> IF c = 1 THEN 1 ELSE NProv - 1]
    /\ owner = [p \in Province |->
                   IF p = 1 THEN 1 ELSE IF p = NProv - 1 THEN 2 ELSE None]
    /\ owned_provinces = [c \in Country |-> <<capital_province[c]>>]
    /\ population = [p \in Province |-> IF owner[p] # None THEN 20000 ELSE 200000]
    /\ gdp = [p \in Province |-> IF owner[p] # None THEN 2000000 ELSE 400000]
    /\ armies = [c \in Country |-> <<>>]
    /\ army = [a \in ArmyId |-> NoArmy]
    /\ active_battles = <<>>
    /\ ret = [op |-> "none", c |-> 1, turn |-> 1, k |-> 0]

Accrue ==
    /\ Due("accrual")
    /\ TickStep("accrual",
                accrue(World, upcoming.c, budget_allocation[upcoming.c].economy))

\* the rebellion block: no rebellion (p = None), or the rebellion of the
\* one province p
Revolt(p, r) ==
    /\ Due("rebellion")
    /\ p # None => /\ Len(owned_provinces[upcoming.c]) > 1
                   /\ InList(p, owned_provinces[upcoming.c])
    /\ TickStep("rebellion",
                IF p = None THEN World ELSE rebel(World, upcoming.c, p, r))

Maintain ==
    /\ Due("maintenance")
    /\ TickStep("maintenance", maintain(World, upcoming.c))

Disband ==
    /\ Due("disbanding")
    /\ TickStep("disbanding", disband(World, upcoming.c))

Create(r) ==
    /\ Due("creation")
    /\ TickStep("creation",
                creation(World, upcoming.c,
                         military_budget(get_total_gdp(World, upcoming.c),
                                         budget_allocation[upcoming.c].defense),
                         0, r))

Decay ==
    /\ Due("decay")
    /\ TickStep("decay",
                decay(World, upcoming.c, get_isolated_provinces(World, upcoming.c)))

Cleanup ==
    /\ Due("cleanup")
    /\ TickStep("cleanup", sweep(World, armies[upcoming.c]))

\* The orders of the once-a-second block, for the case that no country is at
\* war: each army free for offense is left alone or sent to an ownerless
\* province. Which province the code picks is not modelled, nor are the
\* defense missions.
Assign(f) ==
    /\ Due("strategy")
    /\ \A a \in ArmyId :
          f[a] # None => /\ InList(a, idle_armies_for_offense(World, upcoming.c))
                         /\ owner[f[a]] = None
    /\ TickStep("strategy", order_armies(World, armies[upcoming.c], f))

Advance(critical, m, r) ==
    /\ Due("battles")
    /\ TickStep("battles", update_all_battles(World, critical, m, r))

Move ==
    /\ Due("movement")
    /\ TickStep("movement", army_loop(World, upcoming.c, armies[upcoming.c]))

NextTick ==
    \/ Accrue
    \/ \E p \in Province \cup {None} :
          \E r \in IF p # None /\ p = capital_province[upcoming.c]
                   THEN 0..1 ELSE {0} : Revolt(p, r)
    \/ Maintain
    \/ Disband
    \/ \E r \in {0} : Create(r)
    \/ Decay
    \/ Cleanup
    \/ \E f \in [ArmyId -> Province \cup {None}] : Assign(f)
    \/ \E critical \in IF active_battles = <<>> THEN {FALSE} ELSE BOOLEAN,
          m \in IF active_battles = <<>> THEN {7} ELSE {7, 13} :
          Advance(critical, m, 0)
    \/ Move

SpecTick == InitTick /\ [][NextTick]_vars

\* the place of a phase in the order "economic accrual, maintenance and
\* disbandment, army creation, isolation decay and cleanup, movement and
\* engagement, strategic re-assignment, battle advancement"
StatedRank(op) ==
    CASE op \in {"accrual", "rebellion"} -> 1
      [] op \in {"maintenance", "disbanding"} -> 2
      [] op = "creation" -> 3
      [] op \in {"decay", "cleanup"} -> 4
      [] op = "movement" -> 5
      [] op = "strategy" -> 6
      [] op = "battles" -> 7
      [] OTHER -> 0

\* the place of a phase in the order with movement and engagement last
CodeRank(op) == IF op = "movement" THEN 8 ELSE StatedRank(op)

\* C17 as stated: in a turn, for one country, no phase runs after a phase
\* that the stated order puts later.
C17_AsStated ==
    [][ret'.turn = ret.turn /\ ret'.c = ret.c
       => StatedRank(ret'.op) >= StatedRank(ret.op)]_vars

\* C17: in a turn, for one country, the phases run in the order economic
\* accrual, maintenance and disbandment, army creation, isolation decay and
\* cleanup, strategic re-assignment, battle advancement, movement and
\* engagement.
C17_OrderInCode ==
    [][ret'.turn = ret.turn /\ ret'.c = ret.c
       => CodeRank(ret'.op) >= CodeRank(ret.op)]_vars

\* the army loop of a country has run in a turn in which the country's pass
\* advanced a battle
C17_Witness ==
    /\ ret.op = "movement"
    /\ second(ret.turn)
    /\ \E i \in 1..Len(active_battles) : active_battles[i].battle_duration >= ret.c

(* ===================== the advisory provider's decisions =============== *)
\* ratios are in hundredths; a text is a number: a country's name is that
\* country, and the other texts are the ones below
MaxLatency == 1
MaxAdvisoryFrames == 301

EmptyText == 0
NoTarget == 0 - 1
No == 0 - 2
Unknown == NCountry + 1

name(c) == c

Missing == [t |-> "missing", n |-> 0]

Null == [t |-> "null", n |-> 0]

Number(n) == [t |-> "number", n |-> n]

Text(n) == [t |-> "text", n |-> n]

\* Python's truth value of a JSON value
truthy(v) ==
    CASE v.t = "number" -> v.n # 0
      [] v.t = "text" -> v.n # EmptyText
      [] OTHER -> FALSE

\* isinstance(v, (int, float))
is_number(v) == v.t = "number"

default_decisions ==
    [budget |-> [defense_ratio |-> Number(40), economy_ratio |-> Number(30),
                 research_ratio |-> Number(30)],
     attack_strategy |-> [target_nation |-> Text(NoTarget), attack_ratio |-> Number(50)],
     declare_war |-> [target_nation |-> Text(No)],
     form_alliance |-> [target_nation |-> Text(No)],
     offer_truce |-> [target_nation |-> Text(No)]]

Sections == DOMAIN default_decisions

\* a section of the response: absent, present but no object, or an object
\* with the fields of the default, each of which may be missing
Absent(key) == [is |-> "missing", f |-> default_decisions[key]]

NoObject(key) == [is |-> "other", f |-> default_decisions[key]]

Object(fields) == [is |-> "dict", f |-> fields]

\* the text the provider sent, as json.loads sees it
NoResponse == [kind |-> "none", s |-> [key \in Sections |-> Absent(key)]]

NotJson == [kind |-> "text", s |-> [key \in Sections |-> Absent(key)]]

JsonList == [kind |-> "list", s |-> [key \in Sections |-> Absent(key)]]

Json(sections) == [kind |-> "dict", s |-> sections]

\* the loop over default_decisions.items(): a section that is missing or no
\* object becomes the default, a missing field becomes the default's
fill(section, default) ==
    IF section.is # "dict" THEN default
    ELSE [k \in DOMAIN default |->
             IF section.f[k] = Missing THEN default[k] ELSE section.f[k]]

budget_accepted(budget) ==
    /\ is_number(budget.defense_ratio)
    /\ is_number(budget.economy_ratio)
    /\ is_number(budget.research_ratio)
    /\ LET d == budget.defense_ratio.n + budget.economy_ratio.n
                + budget.research_ratio.n - 100
       IN  d < 1 /\ 0 - d < 1

attack_ratio_accepted(atk_ratio) ==
    is_number(atk_ratio) /\ 0 <= atk_ratio.n /\ atk_ratio.n <= 100

get_comprehensive_decision_async(response) ==
    IF response.kind # "dict" THEN default_decisions
    ELSE LET decisions == [key \in Sections |->
                              fill(response.s[key], default_decisions[key])]
             checked == IF budget_accepted(decisions.budget) THEN decisions
                        ELSE [decisions EXCEPT !.budget = default_decisions.budget]
         IN  IF attack_ratio_accepted(checked.attack_strategy.attack_ratio)
             THEN checked
             ELSE [checked EXCEPT !.attack_strategy.attack_ratio = Number(50)]

(* ------------------------ applying the decisions ----------------------- *)
\* the countries' fields the decisions write, as one value
Cabinet ==
    [allies |-> allies, enemies |-> enemies, budget_allocation |-> budget_allocation,
     attack_ratio_ai |-> attack_ratio_ai, attack_target_ai |-> attack_target_ai,
     error |-> FALSE]

Seat(k) ==
    /\ allies' = k.allies
    /\ enemies' = k.enemies
    /\ budget_allocation' = k.budget_allocation
    /\ attack_ratio_ai' = k.attack_ratio_ai
    /\ attack_target_ai' = k.attack_target_ai

\* add_ally without the entry in the other country's set
add_ally_one_sided(k, c, other_country) ==
    IF other_country # None /\ other_country # c /\ other_country \notin k.allies[c]
    THEN [k EXCEPT !.allies[c] = @ \cup {other_country}]
    ELSE k

\* set.remove raises KeyError for an element that is not in the set
add_ally(k, c, other_country) ==
    IF other_country # None /\ other_country # c /\ other_country \notin k.allies[c]
    THEN [k EXCEPT
            !.allies = [x \in Country |->
                          IF x = c THEN @[x] \cup {other_country}
                          ELSE IF x = other_country THEN @[x] \cup {c} ELSE @[x]],
            !.enemies = IF other_country \in k.enemies[c]
                        THEN [x \in Country |->
                                IF x = c THEN @[x] \ {other_country}
                                ELSE IF x = other_country THEN @[x] \ {c} ELSE @[x]]
                        ELSE @,
            !.error = @ \/ (other_country \in k.enemies[c]
                              /\ c \notin k.enemies[other_country])]
    ELSE k

add_enemy(k, c, other_country) ==
    IF other_country # None /\ other_country # c /\ other_country \notin k.enemies[c]
    THEN [k EXCEPT
            !.enemies = [x \in Country |->
                           IF x = c THEN @[x] \cup {other_country}
                           ELSE IF x = other_country THEN @[x] \cup {c} ELSE @[x]],
            !.allies = IF other_country \in k.allies[c]
                       THEN [x \in Country |->
                               IF x = c THEN @[x] \ {other_country}
                               ELSE IF x = other_country THEN @[x] \ {c} ELSE @[x]]
                       ELSE @,
            !.error = @ \/ (other_country \in k.allies[c]
                              /\ c \notin k.allies[other_country])]
    ELSE k

remove_enemy(k, c, other_country) ==
    IF other_country # None /\ other_country \in k.enemies[c]
    THEN [k EXCEPT
            !.enemies = [x \in Country |->
                           IF x = c THEN @[x] \ {other_country}
                           ELSE IF x = other_country THEN @[x] \ {c} ELSE @[x]],
            !.error = @ \/ c \notin k.enemies[other_country]]
    ELSE k

\* next((c for c in countries if c.name == text), None)
country_named(text) ==
    IF \E c \in Country : name(c) = text.n
    THEN CHOOSE c \in Country : name(c) = text.n
    ELSE None

\* `x and x.lower() != ...`: a value that is true and has no lower() raises
raises(target_nation) == truthy(target_nation) /\ target_nation.t # "text"

\* the target a section names, None for "no", "none" and a false value
named(target_nation, refusals) ==
    IF truthy(target_nation) /\ target_nation.n \notin refusals
    THEN country_named(target_nation)
    ELSE None

allocation(decisions) ==
    [defense |-> decisions.budget.defense_ratio.n,
     economy |-> decisions.budget.economy_ratio.n,
     research |-> decisions.budget.research_ratio.n]

apply_budget(k, c, decisions) ==
    [k EXCEPT !.budget_allocation[c] = allocation(decisions)]

apply_attack_strategy(k, c, decisions) ==
    LET attack_target_name == decisions.attack_strategy.target_nation
        k1 == [k EXCEPT !.attack_ratio_ai[c] = decisions.attack_strategy.attack_ratio.n]
    IN  IF raises(attack_target_name) THEN [k1 EXCEPT !.error = TRUE]
        ELSE [k1 EXCEPT !.attack_target_ai[c] = named(attack_target_name, {NoTarget})]

apply_declare_war(k, c, decisions) ==
    LET war_target_name == decisions.declare_war.target_nation
        target_c_obj == named(war_target_name, {No, NoTarget})
    IN  IF raises(war_target_name) THEN [k EXCEPT !.error = TRUE]
        ELSE IF target_c_obj # None /\ target_c_obj # c /\ target_c_obj \notin k.enemies[c]
             THEN add_enemy(k, c, target_c_obj)
             ELSE k

apply_form_alliance(k, c, decisions) ==
    LET alliance_target_name == decisions.form_alliance.target_nation
        target_c_obj == named(alliance_target_name, {No, NoTarget})
    IN  IF raises(alliance_target_name) THEN [k EXCEPT !.error = TRUE]
        ELSE IF /\ target_c_obj # None /\ target_c_obj # c
                /\ target_c_obj \notin k.allies[c] /\ target_c_obj \notin k.enemies[c]
             THEN add_ally(k, c, target_c_obj)
             ELSE k

apply_offer_truce(k, c, decisions) ==
    LET truce_target_name == decisions.offer_truce.target_nation
        target_c_obj == named(truce_target_name, {No, NoTarget})
    IN  IF raises(truce_target_name) THEN [k EXCEPT !.error = TRUE]
        ELSE IF target_c_obj # None /\ target_c_obj \in k.enemies[c]
             THEN remove_enemy(k, c, target_c_obj)
             ELSE k

\* the five steps for one country; an exception leaves the later ones undone
apply_decisions(k, c, decisions) ==
    LET k1 == apply_budget(k, c, decisions)
        k2 == apply_attack_strategy(k1, c, decisions)
        k3 == IF k2.error THEN k2 ELSE apply_declare_war(k2, c, decisions)
        k4 == IF k3.error THEN k3 ELSE apply_form_alliance(k3, c, decisions)
    IN  IF k4.error THEN k4 ELSE apply_offer_truce(k4, c, decisions)

\* for i, country_obj in enumerate(countries): ... , from country c on
RECURSIVE apply_all(_, _, _)
apply_all(k, c, all_decisions) ==
    IF c > NCountry \/ k.error THEN k
    ELSE apply_all(apply_decisions(k, c, all_decisions[c]), c + 1, all_decisions)

(* --------------------- the decision frame of the loop ------------------ *)
ai_decision_interval == GAME_TICKS_PER_LOGICAL_SECOND * 10

\* what the provider may put where a ratio or a target is expected
RatioValues ==
    {Missing, Text(Unknown), Number(0 - 50), Number(0), Number(50), Number(150)}

TargetValues ==
    {Missing, Null, Number(7), Text(Unknown)} \cup {Text(name(c)) : c \in Country}

Ratios(a, b, c) == Object([defense_ratio |-> a, economy_ratio |-> b, research_ratio |-> c])

Budgets ==
    {NoObject("budget")}
        \cup {Ratios(Number(50), Number(50), r) : r \in RatioValues}
        \cup {Ratios(Number(150), r, Number(0)) : r \in RatioValues}

Strategies ==
    {NoObject("attack_strategy")}
        \cup {Object([target_nation |-> t, attack_ratio |-> Missing]) : t \in TargetValues}
        \cup {Object([target_nation |-> Missing, attack_ratio |-> r]) : r \in RatioValues}

Targets(key) == {NoObject(key)} \cup {Object([target_nation |-> t]) : t \in TargetValues}

Only(key, section) ==
    Json([k \in Sections |-> IF k = key THEN section ELSE Absent(k)])

Responses ==
    {NoResponse, NotJson, JsonList}
        \cup {Only("budget", b) : b \in Budgets}
        \cup {Only("attack_strategy", a) : a \in Strategies}
        \cup UNION {{Only(key, t) : t \in Targets(key)} :
                      key \in {"declare_war", "form_alliance", "offer_truce"}}

InitAdvisory ==
    /\ Country_init
    /\ border_provinces = BordersOf(LineEdges)
    /\ is_coastal = [p \in Province |-> is_island(p)]
    /\ capital_province = [c \in Country |-> IF c = 1 THEN 1 ELSE NProv - 1]
    /\ owner = [p \in Province |->
                   IF p = 1 THEN 1 ELSE IF p = NProv - 1 THEN 2 ELSE None]
    /\ owned_provinces = [c \in Country |-> <<capital_province[c]>>]
    /\ population = [p \in Province |-> 2 * 10000]
    /\ gdp = [p \in Province |-> 2 * 1000000]
    /\ armies = [c \in Country |-> <<>>]
    /\ army = [a \in ArmyId |-> NoArmy]
    /\ active_battles = <<>>
    /\ ret = [op |-> "frame", game_current_turn |-> ai_decision_interval - 2,
              c |-> 1, outstanding |-> {}, waited |-> 0,
              all_decisions |-> [c \in Country |-> default_decisions]]

UNCHANGED_world ==
    /\ UNCHANGED <<owner, population, gdp, owned_provinces, capital_province,
                   armies, army, active_battles>>
    /\ UNCHANGED_map

\* a frame begins: the turn counter moves, and on a decision frame the first
\* country of the loop reaches the advisory block
Frame ==
    /\ ret.op = "frame"
    /\ ret.game_current_turn < MaxAdvisoryFrames
    /\ LET turn == ret.game_current_turn + 1
       IN  ret' = [ret EXCEPT
                     !.game_current_turn = turn,
                     !.c = 1,
                     !.op = IF turn > 0 /\ turn % ai_decision_interval = 0
                            THEN "decide" ELSE "frame"]
    /\ UNCHANGED_world
    /\ UNCHANGED_ai

\* asyncio.run(get_all_ai_decisions()): one request per country is sent and
\* the loop stays in the call until all of them are answered
Request ==
    /\ ret.op = "decide"
    /\ ret' = [ret EXCEPT !.op = "awaiting", !.outstanding = Country, !.waited = 0]
    /\ UNCHANGED_world
    /\ UNCHANGED_ai

\* time passes at the provider while the loop is in the call
Wait ==
    /\ ret.op = "awaiting"
    /\ ret.outstanding # {}
    /\ ret.waited < MaxLatency
    /\ ret' = [ret EXCEPT !.waited = @ + 1]
    /\ UNCHANGED_world
    /\ UNCHANGED_ai

\* the provider answers country c's request
Respond(c, response) ==
    /\ ret.op = "awaiting"
    /\ c \in ret.outstanding
    /\ ret' = [ret EXCEPT
                 !.outstanding = @ \ {c},
                 !.all_decisions[c] = get_comprehensive_decision_async(response)]
    /\ UNCHANGED_world
    /\ UNCHANGED_ai

\* the call returns and the decisions are applied, country by country; the
\* next country of the loop then reaches the advisory block of the same frame
Apply ==
    /\ ret.op = "awaiting"
    /\ ret.outstanding = {}
    /\ LET k == apply_all(Cabinet, 1, ret.all_decisions)
       IN  /\ Seat(k)
           /\ ret' = [ret EXCEPT
                        !.op = IF k.error THEN "halted"
                               ELSE IF ret.c < NCountry THEN "decide" ELSE "frame",
                        !.c = IF ~k.error /\ ret.c < NCountry THEN @ + 1 ELSE @,
                        !.waited = 0,
                        !.all_decisions = [c \in Country |-> default_decisions]]
    /\ UNCHANGED_world

NextAdvisory ==
    \/ Frame
    \/ Request
    \/ Wait
    \/ \E c \in Country, response \in Responses : Respond(c, response)
    \/ Apply

SpecAdvisory == InitAdvisory /\ [][NextAdvisory]_vars

(* ------------------------- claims on the advisory ---------------------- *)
\* C18: the advisory request is non-blocking: while a request to the provider
\* is outstanding the loop spends no time waiting for the answer
C18_TickNeverWaits ==
    ret.op = "awaiting" /\ ret.outstanding # {} => ret.waited = 0

InRange(ratio) == is_number(ratio) /\ 0 <= ratio.n /\ ratio.n <= 100

\* C19: whatever the provider answered, the decision returned has budget
\* ratios that are each within [0,1] and sum to 1, and an attack_ratio
\* within [0,1]
C19_DecisionWithinRange ==
    \A c \in Country :
        LET budget == ret.all_decisions[c].budget
        IN  /\ InRange(budget.defense_ratio)
            /\ InRange(budget.economy_ratio)
            /\ InRange(budget.research_ratio)
            /\ budget.defense_ratio.n + budget.economy_ratio.n
                 + budget.research_ratio.n = 100
            /\ InRange(ret.all_decisions[c].attack_strategy.attack_ratio)

\* C20: no decision the provider can yield halts the loop: applying it
\* completes without an error
C20_NeverHalts == ret.op # "halted"

(* ============================== diplomacy ============================== *)
MaxTreaties == 3

remove_ally(k, c, other_country) ==
    IF other_country # None /\ other_country \in k.allies[c]
    THEN [k EXCEPT
            !.allies = [x \in Country |->
                          IF x = c THEN @[x] \ {other_country}
                          ELSE IF x = other_country THEN @[x] \ {c} ELSE @[x]],
            !.error = @ \/ c \notin k.allies[other_country]]
    ELSE k

InitDiplomacy ==
    /\ Country_init
    /\ border_provinces = BordersOf(LineEdges)
    /\ is_coastal = [p \in Province |-> is_island(p)]
    /\ capital_province = [c \in Country |-> IF c = 1 THEN 1 ELSE NProv - 1]
    /\ owner = [p \in Province |->
                   IF p = 1 THEN 1 ELSE IF p = NProv - 1 THEN 2 ELSE None]
    /\ owned_provinces = [c \in Country |-> <<capital_province[c]>>]
    /\ population = [p \in Province |-> 2 * 10000]
    /\ gdp = [p \in Province |-> 2 * 1000000]
    /\ armies = [c \in Country |-> <<>>]
    /\ army = [a \in ArmyId |-> NoArmy]
    /\ active_battles = <<>>
    /\ ret = [op |-> "none", c |-> None, other_country |-> None, calls |-> 0,
              error |-> FALSE, pre |-> Cabinet]

Treaty(op, c, other_country, k) ==
    /\ ret.calls < MaxTreaties
    /\ ~ret.error
    /\ Seat(k)
    /\ ret' = [op |-> op, c |-> c, other_country |-> other_country,
               calls |-> ret.calls + 1, error |-> k.error, pre |-> Cabinet]
    /\ UNCHANGED_world

AddAlly(c, o) == Treaty("add_ally", c, o, add_ally(Cabinet, c, o))

RemoveAlly(c, o) == Treaty("remove_ally", c, o, remove_ally(Cabinet, c, o))

AddEnemy(c, o) == Treaty("add_enemy", c, o, add_enemy(Cabinet, c, o))

RemoveEnemy(c, o) == Treaty("remove_enemy", c, o, remove_enemy(Cabinet, c, o))

NextDiplomacy ==
    \E c \in Country, o \in Country \cup {None} :
        \/ AddAlly(c, o)
        \/ RemoveAlly(c, o)
        \/ AddEnemy(c, o)
        \/ RemoveEnemy(c, o)

SpecDiplomacy == InitDiplomacy /\ [][NextDiplomacy]_vars

\* C21: after any sequence of add_ally, remove_ally, add_enemy and
\* remove_enemy calls the allies and the enemies relation are symmetric, no
\* country is both ally and enemy of another, and no country is its own ally
\* or enemy (and no call has failed on the way)
C21_DiplomacySymmetric ==
    /\ ~ret.error
    /\ \A a, b \in Country :
          /\ a \in allies[b] <=> b \in allies[a]
          /\ a \in enemies[b] <=> b \in enemies[a]
          /\ ~(a \in allies[b] /\ a \in enemies[b])
    /\ \A a \in Country : a \notin allies[a] /\ a \notin enemies[a]

\* an alliance has been turned into a war by add_enemy
C21_Witness ==
    /\ ret.op = "add_enemy"
    /\ ret.other_country \in ret.pre.allies[ret.c]
    /\ ret.other_country \in enemies[ret.c]
    /\ ret.c \in enemies[ret.other_country]
    /\ allies[ret.c] = {}

(* ------------------------ claims on the armies' lists ------------------ *)
\* C22: no army with strength <= 0 is in any country's armies list: an army
\* whose strength drops to 0 (battle damage, isolation decay) leaves its
\* owner's list in the step that brought it there
C22_NoDeadArmyListed ==
    \A c \in Country : \A i \in 1..Len(armies[c]) : army[armies[c][i]].strength > 0

\* a battle update has brought an army to strength 0 and it is in no list
C22_Witness ==
    /\ ret.op = "battles"
    /\ \E a \in ArmyId :
          /\ army[a].owner # None
          /\ army[a].strength = 0
          /\ \A c \in Country : ~InList(a, armies[c])

(* ------------------ the main loop after a decision frame --------------- *)
\* an answer of the provider whose ratios are far outside [0,1] and sum to 1
Lopsided == Only("budget", Ratios(Number(8300), Number(0 - 8200), Number(0)))

Advised == {NoResponse, Lopsided}

\* the game of InitTick with the budgets a decision frame has left; the
\* frames are counted from that frame
InitBudget ==
    /\ allies = [c \in Country |-> {}]
    /\ enemies = [c \in Country |-> {}]
    /\ \E answer \in [Country -> Advised] :
          budget_allocation =
              [c \in Country |->
                  allocation(get_comprehensive_decision_async(answer[c]))]
    /\ attack_ratio_ai = [c \in Country |-> 50]
    /\ attack_target_ai = [c \in Country |-> None]
    /\ border_provinces = BordersOf(LineEdges)
    /\ is_coastal = [p \in Province |-> is_island(p)]
    /\ capital_province = [c \in Country |-> IF c = 1 THEN 1 ELSE NProv - 1]
    /\ owner = [p \in Province |->
                   IF p = 1 THEN 1 ELSE IF p = NProv - 1 THEN 2 ELSE None]
    /\ owned_provinces = [c \in Country |-> <<capital_province[c]>>]
    /\ population = [p \in Province |-> IF owner[p] # None THEN 20000 ELSE 200000]
    /\ gdp = [p \in Province |-> IF owner[p] # None THEN 2000000 ELSE 400000]
    /\ armies = [c \in Country |-> <<>>]
    /\ army = [a \in ArmyId |-> NoArmy]
    /\ active_battles = <<>>
    /\ ret = [op |-> "none", c |-> 1, turn |-> 1, k |-> 0]

SpecBudget == InitBudget /\ [][NextTick]_vars

\* C23: in every reachable state every army's strength, every province's
\* population and every province's GDP is >= 0
C23_NeverNegative ==
    /\ \A a \in ArmyId : army[a].strength >= 0
    /\ \A p \in Province : population[p] >= 0 /\ gdp[p] >= 0

(* ------------------- a country loses its last province ----------------- *)
\* The game with an army of country 1 standing on the capital of country 2,
\* its target, at the end of its march; the capital is the only province of
\* country 2. Country 1 holds province 1, or provinces 1 and 2; its army
\* has strength 50 or 1000; the capital of country 2 has population 4,000
\* or 200,000, and country 2 has no army or one of strength 98 in it.
InitFall ==
    /\ Country_init
    /\ border_provinces = BordersOf(LineEdges)
    /\ is_coastal = [p \in Province |-> is_island(p)]
    /\ capital_province = [c \in Country |-> IF c = 1 THEN 1 ELSE NProv - 1]
    /\ \E held \in {<<1>>, <<1, 2>>} :
          /\ owned_provinces = [c \in Country |->
                                   IF c = 1 THEN held ELSE <<NProv - 1>>]
          /\ owner = [p \in Province |->
                         IF InList(p, held) THEN 1
                         ELSE IF p = NProv - 1 THEN 2 ELSE None]
    /\ \E h \in {2 * 4000, 2 * 200000} :
          population = [p \in Province |->
                           IF p = NProv - 1 THEN h
                           ELSE IF p = 1 THEN 20000 ELSE 200000]
    /\ gdp = [p \in Province |->
                 IF p \in {1, NProv - 1} THEN 2000000 ELSE 400000]
    /\ \E strength \in {50, 1000}, defender \in {0, 98} :
          /\ army = [a \in ArmyId |->
                        IF a = 1 THEN Besieger(strength)
                        ELSE IF a = 2 /\ defender > 0
                        THEN Army(2, NProv - 1, defender)
                        ELSE NoArmy]
          /\ armies = [c \in Country |->
                          IF c = 1 THEN <<1>>
                          ELSE IF defender > 0 THEN <<2>> ELSE <<>>]
    /\ active_battles = <<>>
    /\ ret = [op |-> "none", c |-> 1, turn |-> 1, k |-> 0]

SpecFall == InitFall /\ [][NextTick]_vars

\* the country owns no province
Fallen(c) == owned_provinces[c] = <<>>

\* what the step leaves of the countries other than c and of the provinces
\* other than p as it was, a province list growing by p at most
Untouched(c, p) ==
    /\ \A q \in Province \ {p} :
          /\ owner'[q] = owner[q]
          /\ population'[q] = population[q]
          /\ gdp'[q] = gdp[q]
    /\ \A d \in Country \ {c} :
          /\ owned_provinces'[d] \in {owned_provinces[d], Append(owned_provinces[d], p)}
          /\ capital_province'[d] = capital_province[d]
          /\ Range(armies'[d]) \subseteq Range(armies[d])

DescendingOrders(list, key) ==
    {s \in [1..Len(list) -> Range(list)] :
        /\ \A i, j \in 1..Len(list) : i < j => s[i] # s[j] /\ key[s[i]] >= key[s[j]]}

\* the first k provinces of s are at 0, the next one is at most what it was,
\* and the ones after it are what they were
Depleted(s, k, before, after) ==
    /\ \A i \in 1..k : after[s[i]] = 0
    /\ k < Len(s) => 0 <= after[s[k + 1]] /\ after[s[k + 1]] <= before[s[k + 1]]
    /\ \A i \in (k + 2)..Len(s) : after[s[i]] = before[s[i]]

Greedy(list, amount, result, before, after) ==
    IF amount <= SumOver(list, before)
    THEN \E s \in DescendingOrders(list, before) :
            \E k \in 0..Len(list) : Depleted(s, k, before, after)
    ELSE /\ result = FALSE
         /\ \A p \in Range(list) : after[p] = 0

\* C25: after deduct_population or deduct_gdp with an amount of at most the
\* total there is an order of the country's provinces, descending in the
\* resource as it was before the call, in which the first provinces are at
\* 0, at most the one after them is partly reduced and the rest are as they
\* were; with an amount above the total the call returns False and every
\* province of the country is at 0.
C25_GreedyLargestFirst ==
    /\ ret.op = "deduct_population" =>
          Greedy(ret.pre.owned_provinces[ret.c], ret.amount, ret.result,
                 ret.pre.population, population)
    /\ ret.op = "deduct_gdp" =>
          Greedy(ret.pre.owned_provinces[ret.c], ret.amount, ret.result,
                 ret.pre.gdp, gdp)

\* a deduction of GDP that emptied one province, took part of the GDP of a
\* second and left a third, which had GDP, as it was
C25_Witness ==
    /\ ret.op = "deduct_gdp"
    /\ ret.result = TRUE
    /\ \E p, q, r \in Range(ret.pre.owned_provinces[ret.c]) :
          /\ ret.pre.gdp[p] > 0 /\ gdp[p] = 0
          /\ 0 < gdp[q] /\ gdp[q] < ret.pre.gdp[q]
          /\ 0 < gdp[r] /\ gdp[r] = ret.pre.gdp[r]

\* a deduction of population above the total, which emptied two provinces
C25_WitnessAbove ==
    /\ ret.op = "deduct_population"
    /\ ret.amount > PreTotalPopulation
    /\ Cardinality({p \in Province : ret.pre.population[p] > 0 /\ population[p] = 0}) >= 2

(* ---------------------- where an army can be created ------------------ *)
\* the country has a capital, owns the province, and the province is joined
\* to the capital by adjacent provinces the country owns
Supplied(c, p) ==
    /\ capital_province[c] # None
    /\ owner[p] = c
    /\ p \in SameOwnerClosure({capital_province[c]}, c)

\* C26: create_army returns an army only for a province that is an island
\* or is joined to the capital of the country; for any other province, the
\* provinces of a country without a capital and the provinces the country
\* does not own among them, it returns None and leaves every population,
\* every GDP and every army list as it was.
C26_OnlyWhereSupplied ==
    ret.op = "create_army" =>
        /\ ret.result # None => is_island(ret.p) \/ Supplied(ret.c, ret.p)
        /\ ~is_island(ret.p) /\ ~Supplied(ret.c, ret.p)
           => /\ ret.result = None
              /\ population = ret.pre.population
              /\ gdp = ret.pre.gdp
              /\ armies = ret.pre.armies
              /\ \A a \in ArmyId : army[a] = NoArmy

\* create_army was refused for a province the country owns, which is cut off
\* from the capital, although the country could pay for the army
C26_Witness ==
    /\ ret.op = "create_army"
    /\ ret.amount = ARMY_BASE_STRENGTH
    /\ owner[ret.p] = ret.c
    /\ ~is_island(ret.p)
    /\ ~Supplied(ret.c, ret.p)
    /\ PreTotalPopulation >= ARMY_BASE_STRENGTH
    /\ PreTotalGdp >= 4 * ARMY_BASE_STRENGTH
    /\ ret.result = None

(* --------------------------- isolation decay --------------------------- *)
\* the province is owned by the country, is no island, and is cut off from
\* the capital
Cut(c, p) == owner[p] = c /\ ~is_island(p) /\ ~Supplied(c, p)

\* what the isolation decay block, run for country c, may do to army a: when
\* due, an army of the list of c is left with 19/20 of its strength, rounded
\* down, and is off the list if that is 100 or less; otherwise the army is
\* left alone
Decayed(c, a, due) ==
    LET strength == (19 * army[a].strength) \div 20
    IN  IF due /\ InList(a, armies[c]) /\ Cut(c, army[a].current_province)
        THEN IF strength <= 100
             THEN ~InList(a, armies'[c])
             ELSE InList(a, armies'[c]) /\ army'[a].strength = strength
        ELSE /\ InList(a, armies'[c]) <=> InList(a, armies[c])
             /\ army'[a].strength = army[a].strength

\* C27: the isolation decay takes 5% of the strength of an army standing in
\* an owned province that is no island and is cut off from the capital, the
\* strength becoming floor(0.95 x strength), in the frames that end a
\* logical second and in no other frame; the army is off its owner's list
\* as soon as its strength is 100 or less; the armies in connected
\* provinces and on islands are left alone.
C27_OncePerSecond ==
    [][ret'.op = "decay" =>
          \A a \in ArmyId : Decayed(ret'.c, a, second(ret'.turn))]_vars

(* ------------------------- the end of a march -------------------------- *)
\* an army of country 1 of the given strength standing in province p, or on
\* its march from p to the province target, progress steps of it done
Marching(p, strength, target, progress) ==
    IF target = p THEN Army(1, p, strength)
    ELSE [Army(1, p, strength) EXCEPT !.target_province = target,
                                      !.mission_type = "attack",
                                      !.is_moving = TRUE,
                                      !.move_progress = progress]

\* Country 1 owns provinces 1, its capital, and 2, and country 2 province
\* NProv - 1. Every army is an army of country 1, of strength 150 or 2,000,
\* which stands in province 1 or 2 or is on its march from one to the other,
\* at the start of the march, one step before its end or two.
InitMarch ==
    /\ Country_init
    /\ border_provinces = BordersOf(LineEdges)
    /\ is_coastal = [p \in Province |-> is_island(p)]
    /\ capital_province = [c \in Country |-> IF c = 1 THEN 1 ELSE NProv - 1]
    /\ owned_provinces = [c \in Country |-> IF c = 1 THEN <<1, 2>> ELSE <<NProv - 1>>]
    /\ owner = [p \in Province |->
                   IF p \in {1, 2} THEN 1 ELSE IF p = NProv - 1 THEN 2 ELSE None]
    /\ population = [p \in Province |-> IF p \in {1, NProv - 1} THEN 20000 ELSE 200000]
    /\ gdp = [p \in Province |-> IF p \in {1, NProv - 1} THEN 2000000 ELSE 400000]
    /\ army \in [ArmyId -> {Marching(p, strength, target, progress) :
                               p \in {1, 2}, strength \in {150, 2000},
                               target \in {1, 2}, progress \in {0, 3, 4}}]
    /\ armies = [c \in Country |-> IF c = 1 THEN SetToSeq(ArmyId) ELSE <<>>]
    /\ active_battles = <<>>
    /\ ret = [op |-> "none", a |-> 1, pre |-> [army |-> army, armies |-> armies]]

\* army.update_animation() for an army a of the list of its country
UpdateAnimation(a) ==
    /\ InList(a, armies[army[a].owner])
    /\ Install(update_animation(World, a))
    /\ ret' = [op |-> "update_animation", a |-> a,
               pre |-> [army |-> army, armies |-> armies]]
    /\ UNCHANGED_map
    /\ UNCHANGED_ai

NextMarch == \E a \in ArmyId : UpdateAnimation(a)

SpecMarch == InitMarch /\ [][NextMarch]_vars

\* the call brought the army to the end of its march
Arrived ==
    /\ ret.op = "update_animation"
    /\ ret.pre.army[ret.a].is_moving
    /\ ret.pre.army[ret.a].target_province # None
    /\ ret.pre.army[ret.a].move_progress + 1 >= 5

\* the armies of the country's list with strength, the army a among them,
\* that were in province p or reached it
Gathered(c, a, p) ==
    SelectSeq(ret.pre.armies[c],
              LAMBDA x : /\ ret.pre.army[x].strength > 0
                         /\ x = a \/ ret.pre.army[x].current_province = p)

\* the armies of the country's list with strength that are in province p
Present(c, p) ==
    SelectSeq(armies[c], LAMBDA x : army[x].strength > 0 /\ army[x].current_province = p)

\* C28: when update_animation brings an army to the end of its march, the
\* army is in its target province, exactly one army of its country with
\* strength is listed in that province, the strength of that army is the sum
\* of the strengths the armies of the country in the province and the
\* arriving army had, the others of them are off the country's list, and
\* the total strength of the country's armies is what it was.
C28_MergedOnArrival ==
    Arrived =>
        LET a == ret.a
            c == ret.pre.army[a].owner
            p == ret.pre.army[a].target_province
            before == [x \in ArmyId |-> ret.pre.army[x].strength]
            after == [x \in ArmyId |-> army[x].strength]
        IN  /\ army[a].current_province = p
            /\ Len(Present(c, p)) = 1
            /\ InList(Present(c, p)[1], Gathered(c, a, p))
            /\ after[Present(c, p)[1]] = SumOver(Gathered(c, a, p), before)
            /\ \A x \in Range(Gathered(c, a, p)) \ {Present(c, p)[1]} :
                  ~InList(x, armies[c])
            /\ SumOver(armies[c], after) = SumOver(ret.pre.armies[c], before)

\* an army ended its march in a province where a stronger army of its
\* country stood, and was merged into it
C28_Witness ==
    /\ Arrived
    /\ Len(Gathered(ret.pre.army[ret.a].owner, ret.a,
                    ret.pre.army[ret.a].target_province)) >= 2
    /\ ~InList(ret.a, armies[ret.pre.army[ret.a].owner])
    /\ \E x \in ArmyId : army[x].strength = 2150

(* --------------------------- defense missions -------------------------- *)
\* the number of armies of the country whose defense missions are assigned,
\* and of leftover defenders that can have
MaxDefenders == 5
MaxReserve == Max(1, (2 * MaxDefenders) \div 5 - 1)

\* the provinces Country.get_border_provinces returns, as a set
get_border_provinces(w, c) ==
    {province \in Range(w.owned_provinces[c]) :
        \E border_province \in Range(border_provinces[province]) :
           w.owner[border_province] # c /\ w.owner[border_province] # None}

\* Variant of the danger score without the addition for the capital area.
danger_score_flat(w, c, border_province) ==
    10 * Cardinality({bp \in Range(border_provinces[border_province]) :
                         w.owner[bp] # None /\ w.owner[bp] # c})

\* danger_score of a border province in assign_defense_missions
danger_score(w, c, border_province) ==
    LET adjacent_enemy_count ==
            Cardinality({bp \in Range(border_provinces[border_province]) :
                            w.owner[bp] # None /\ w.owner[bp] # c})
        is_capital_area ==
            \/ border_province = w.capital_province[c]
            \/ /\ w.capital_province[c] # None
               /\ InList(border_province, border_provinces[w.capital_province[c]])
    IN  adjacent_enemy_count * 10 + (IF is_capital_area THEN 50 ELSE 0)

\* the first loop of assign_defense_missions, from index i
RECURSIVE man_borders(_, _, _, _)
man_borders(w, critical_borders, defense_armies, i) ==
    IF i > Len(critical_borders) \/ i > Len(defense_armies) THEN w
    ELSE man_borders([w EXCEPT
                        !.army[defense_armies[i]].mission_type = "defense",
                        !.army[defense_armies[i]].target_province = critical_borders[i],
                        !.army[defense_armies[i]].defense_province_target =
                            critical_borders[i]],
                     critical_borders, defense_armies, i + 1)

\* the second loop, over the remaining defense armies; the digits of r to
\* the base NProv are the draws of random.choice
RECURSIVE station_reserve(_, _, _, _, _)
station_reserve(w, c, remaining_defense_armies, capital_area_provinces, r) ==
    IF remaining_defense_armies = <<>> THEN w
    ELSE LET a == Head(remaining_defense_armies)
         IN  station_reserve(
                 [w EXCEPT
                    !.army[a].mission_type = "defense",
                    !.army[a].target_province = choice(capital_area_provinces, r % NProv),
                    !.army[a].defense_province_target = w.capital_province[c]],
                 c, Tail(remaining_defense_armies), capital_area_provinces, r \div NProv)

\* Country.assign_defense_missions; order is the order in which list(set)
\* gives the border provinces
assign_defense_missions(w, c, order, r) ==
    LET available_armies ==
            sorted_desc(SelectSeq(w.armies[c],
                            LAMBDA a : w.army[a].mission_type # "defense"
                                       /\ w.army[a].strength > 0),
                        [a \in DOMAIN w.army |-> w.army[a].strength])
        max_defense_armies == Max(1, (2 * Len(available_armies)) \div 5)
        defense_armies ==
            SubSeq(available_armies, 1, Min(max_defense_armies, Len(available_armies)))
        critical_borders ==
            sorted_desc(order, [p \in Province |-> danger_score(w, c, p)])
        w1 == man_borders(w, critical_borders, defense_armies, 1)
        remaining_defense_armies ==
            SubSeq(defense_armies, Len(critical_borders) + 1, Len(defense_armies))
        capital_area_provinces ==
            <<w.capital_province[c]>>
            \o SelectSeq(border_provinces[w.capital_province[c]],
                         LAMBDA p : w.owner[p] = c)
    IN  IF order = <<>> \/ available_armies = <<>> THEN w
        ELSE IF remaining_defense_armies # <<>> /\ w.capital_province[c] # None
        THEN station_reserve(w1, c, remaining_defense_armies, capital_area_provinces, r)
        ELSE w1

\* the maps: the row and the island, with province 1 also adjacent to
\* province 3, or the island joined to provinces 1 and NProv - 1, or neither
DefenseMaps ==
    {LineEdges, LineEdges \cup {<<1, 3>>}, LineEdges \cup {<<1, NProv>>, <<NProv - 1, NProv>>}}

\* the strengths of the armies, by their place in the list: all the
\* strength of a new army, or rising, or falling with the first one at 0
DefenseStrengths ==
    {[a \in 1..MaxDefenders |-> ARMY_BASE_STRENGTH],
     [a \in 1..MaxDefenders |-> 100 * a],
     [a \in 1..MaxDefenders |-> IF a = 1 THEN 0 ELSE 100 * (MaxDefenders + 1 - a)]}

\* Any ownership of the provinces of one of the maps in which country 1 has
\* province 1, with any of its provinces as its capital; country 1 has 1 to
\* MaxDefenders armies in its capital, none of them or the second on a
\* defense mission.
InitDefense ==
    /\ Country_init
    /\ \E E \in DefenseMaps : border_provinces = BordersOf(E)
    /\ is_coastal = [p \in Province |-> is_island(p)]
    /\ owner \in [Province -> Country \cup {None}]
    /\ owner[1] = 1
    /\ owned_provinces = [c \in Country |-> SetToSeq({p \in Province : owner[p] = c})]
    /\ \E k \in Range(owned_provinces[1]) :
          capital_province =
              [c \in Country |->
                  IF c = 1 THEN k
                  ELSE IF owned_provinces[c] = <<>> THEN None
                  ELSE Head(owned_provinces[c])]
    /\ population = [p \in Province |-> 20000]
    /\ gdp = [p \in Province |-> 2000000]
    /\ \E n \in 1..MaxDefenders, strength \in DefenseStrengths :
       \E defending \in {{}, {2}} :
          /\ army = [a \in 1..n |->
                        [Army(1, capital_province[1], strength[a])
                            EXCEPT !.mission_type =
                                      IF a \in defending THEN "defense" ELSE "idle"]]
          /\ armies = [c \in Country |-> IF c = 1 THEN SetToSeq(1..n) ELSE <<>>]
    /\ active_battles = <<>>
    /\ ret = [op |-> "none", c |-> 1, order |-> <<>>, pre |-> army]

\* country.assign_defense_missions()
AssignDefenseMissions(c, order, r) ==
    /\ Install(assign_defense_missions(World, c, order, r))
    /\ ret' = [op |-> "assign_defense_missions", c |-> c, order |-> order, pre |-> army]
    /\ UNCHANGED_map
    /\ UNCHANGED_ai

\* the listings of the elements of the set S
Listings(S) ==
    {s \in [1..Cardinality(S) -> S] : \A i, j \in DOMAIN s : i # j => s[i] # s[j]}

NextDefense ==
    \E order \in Listings(get_border_provinces(World, 1)),
       r \in 0..(NProv ^ MaxReserve - 1) :
       AssignDefenseMissions(1, order, r)

SpecDefense == InitDefense /\ [][NextDefense]_vars

\* the armies of the country that were on no defense mission and had strength
Eligible ==
    {a \in Range(armies[ret.c]) :
        ret.pre[a].mission_type # "defense" /\ ret.pre[a].strength > 0}

\* the run had border provinces to defend and armies to take
DefenseRun ==
    /\ ret.op = "assign_defense_missions"
    /\ ret.order # <<>>
    /\ Eligible # {}

\* the armies the run put on a defense mission
Taken == {a \in Eligible : army[a].mission_type = "defense"}

\* the provinces of the country with an adjacent province of another country
Borders ==
    {p \in Province :
        /\ owner[p] = ret.c
        /\ \E q \in Range(border_provinces[p]) : owner[q] \notin {ret.c, None}}

\* 10 x the number of adjacent provinces of other countries, and 50 more
\* for the capital and the provinces adjacent to it
StatedDanger(p) ==
    10 * Cardinality({q \in Range(border_provinces[p]) : owner[q] \notin {ret.c, None}})
    + (IF p = capital_province[ret.c]
          \/ InList(p, border_provinces[capital_province[ret.c]])
       THEN 50 ELSE 0)

\* the capital and the provinces of the country adjacent to it
CapitalArea ==
    {capital_province[ret.c]}
    \cup {p \in Range(border_provinces[capital_province[ret.c]]) : owner[p] = ret.c}

\* The armies taken are number of the eligible armies, the strongest ones.
\* The strongest of them, as many as there are border provinces at most,
\* have border provinces as targets, a stronger army a province of no
\* lower danger score, and no border province left out has a higher score
\* than one that is a target; the others have targets in the capital area.
Manned(number) ==
    /\ Cardinality(Taken) = number
    /\ \A x \in Taken, y \in Eligible \ Taken : ret.pre[x].strength >= ret.pre[y].strength
    /\ \E Reserve \in SUBSET Taken :
          LET Front == Taken \ Reserve
              target == [x \in Taken |-> army[x].target_province]
          IN  /\ Cardinality(Front) = Min(Cardinality(Taken), Cardinality(Borders))
              /\ \A x \in Front, y \in Reserve :
                    ret.pre[x].strength >= ret.pre[y].strength
              /\ \A x \in Front : target[x] \in Borders
              /\ \A x, y \in Front :
                    /\ x # y => target[x] # target[y]
                    /\ ret.pre[x].strength > ret.pre[y].strength
                       => StatedDanger(target[x]) >= StatedDanger(target[y])
              /\ \A x \in Front, p \in Borders \ {target[y] : y \in Front} :
                    StatedDanger(target[x]) >= StatedDanger(p)
              /\ \A y \in Reserve : target[y] \in CapitalArea

C30_WitnessOne ==
    /\ DefenseRun
    /\ Cardinality(Eligible) = 2
    /\ Cardinality(Taken) = 1

\* two armies were taken for two border provinces with different scores
C30_WitnessRanked ==
    /\ DefenseRun
    /\ Cardinality(Taken) = 2
    /\ \E x, y \in Taken :
          /\ ret.pre[x].strength > ret.pre[y].strength
          /\ StatedDanger(army[x].target_province) > StatedDanger(army[y].target_province)

(* ---------------------- the orders of the main loop -------------------- *)
\* float('inf') as a path length: longer than any path
inf == NProv + 1

\* the breadth-first search of Army.calculate_actual_path_length, by levels:
\* frontier holds the provinces at distance d from the start
RECURSIVE path_search(_, _, _, _, _, _)
path_search(w, start_owner, frontier, visited, end_province, d) ==
    IF \E q \in frontier : InList(end_province, border_provinces[q]) THEN d + 1
    ELSE LET next == {b \in Province \ visited :
                         /\ w.owner[b] = start_owner
                         /\ \E q \in frontier : InList(b, border_provinces[q])}
         IN  IF next = {} THEN inf
             ELSE path_search(w, start_owner, next, visited \cup next, end_province, d + 1)

\* Army.calculate_actual_path_length
calculate_actual_path_length(w, start_province, end_province) ==
    IF start_province = end_province THEN 0
    ELSE path_search(w, w.owner[start_province], {start_province}, {start_province},
                     end_province, 0)

\* the entries border provinces of owned_p add to the dictionary of the
\* ownerless provinces next to the country
RECURSIVE lands_next_to(_, _, _, _)
lands_next_to(w, owned_p, list, lands) ==
    IF list = <<>> THEN lands
    ELSE LET border_p == Head(list)
         IN  lands_next_to(w, owned_p, Tail(list),
                 IF /\ w.owner[border_p] = None
                    /\ \A i \in 1..Len(lands) : lands[i].province # border_p
                 THEN Append(lands, [province |-> border_p, from_province |-> owned_p])
                 ELSE lands)

\* available_empty_lands_near_owned, in the order of insertion
RECURSIVE available_empty_lands_near_owned(_, _, _, _)
available_empty_lands_near_owned(w, c, list, lands) ==
    IF list = <<>> THEN lands
    ELSE LET owned_p == Head(list)
         IN  available_empty_lands_near_owned(w, c, Tail(list),
                 IF ~is_island(owned_p) /\ ~is_province_connected_to_capital(w, c, owned_p)
                 THEN lands
                 ELSE lands_next_to(w, owned_p, border_provinces[owned_p], lands))

\* the search of the nearest land not assigned in this turn for army_e, from
\* entry i of the dictionary
RECURSIVE best_empty_target(_, _, _, _, _, _, _)
best_empty_target(w, army_e, lands, i, assigned, best, min_actual_distance) ==
    IF i > Len(lands) THEN best
    ELSE LET distance_to_launch_point ==
                 calculate_actual_path_length(w, w.army[army_e].current_province,
                                              lands[i].from_province)
             total_distance_to_empty == distance_to_launch_point + 1
         IN  IF /\ lands[i].province \notin assigned
                /\ distance_to_launch_point # inf
                /\ total_distance_to_empty < min_actual_distance
             THEN best_empty_target(w, army_e, lands, i + 1, assigned,
                                    lands[i].province, total_distance_to_empty)
             ELSE best_empty_target(w, army_e, lands, i + 1, assigned,
                                    best, min_actual_distance)

\* an order to attack
attack(w, a, target_province) ==
    [set_target(w, a, target_province) EXCEPT !.army[a].mission_type = "attack"]

\* the loop over armies_to_assign_empty_land
RECURSIVE capture_empty_lands(_, _, _, _)
capture_empty_lands(w, list, lands, assigned) ==
    IF list = <<>> THEN w
    ELSE LET army_e == Head(list)
             best == best_empty_target(w, army_e, lands, 1, assigned, None, inf)
         IN  IF best # None
             THEN capture_empty_lands(attack(w, army_e, best), Tail(list), lands,
                                      assigned \cup {best})
             ELSE capture_empty_lands(w, Tail(list), lands, assigned)

\* the loop over attackers_ai
RECURSIVE attack_all(_, _, _)
attack_all(w, list, target_province) ==
    IF list = <<>> THEN w
    ELSE attack_all(attack(w, Head(list), target_province), Tail(list), target_province)

\* primary_attack_target_province; r is the draw of random.choice
primary_attack_target(w, c, cabinet, r) ==
    LET target == cabinet.attack_target_ai
    IN  IF target = None \/ target \notin cabinet.enemies THEN None
        ELSE IF w.owned_provinces[target] = <<>> THEN None
        ELSE IF /\ w.capital_province[target] # None
                /\ InList(w.capital_province[target], w.owned_provinces[target])
        THEN w.capital_province[target]
        ELSE choice(w.owned_provinces[target], r)

\* priority of p_candidate as a target of an army of country c
priority(w, c, cabinet, p_candidate) ==
    LET target_owner == w.owner[p_candidate]
    IN  IF target_owner = None THEN 3
        ELSE IF target_owner \in cabinet.enemies
        THEN IF w.capital_province[target_owner] = p_candidate THEN 1 ELSE 2
        ELSE 10

\* candidate_targets[0] after the sort by priority and distance, or None
chosen_target_province(w, c, cabinet, army_ind) ==
    LET here == w.army[army_ind].current_province
        candidate_targets ==
            {p \in Province : w.owner[p] # c /\ priority(w, c, cabinet, p) <= 3}
        before(p, q) ==
            \/ priority(w, c, cabinet, p) < priority(w, c, cabinet, q)
            \/ /\ priority(w, c, cabinet, p) = priority(w, c, cabinet, q)
               /\ \/ distance(p, here) < distance(q, here)
                  \/ distance(p, here) = distance(q, here) /\ p <= q
    IN  IF candidate_targets = {} THEN None
        ELSE CHOOSE p \in candidate_targets : \A q \in candidate_targets : before(p, q)

\* the loop over remaining_idle_armies
RECURSIVE attack_nearest(_, _, _, _)
attack_nearest(w, c, cabinet, list) ==
    IF list = <<>> THEN w
    ELSE LET target == chosen_target_province(w, c, cabinet, Head(list))
         IN  attack_nearest(IF target # None THEN attack(w, Head(list), target) ELSE w,
                            c, cabinet, Tail(list))

\* the armies on a defense or garrison mission in a province with no
\* adjacent province of another country
non_frontier_defense_armies(w, c) ==
    SelectSeq(w.armies[c],
              LAMBDA a :
                  /\ w.army[a].strength > 0
                  /\ w.army[a].mission_type \in {"defense", "garrison"}
                  /\ w.army[a].current_province # None
                  /\ \A border_p \in Range(border_provinces[w.army[a].current_province]) :
                        w.owner[border_p] \in {None, c})

\* the ownerless province closest to the army, the first of them in the
\* list of the provinces
closest_empty_target(w, a) ==
    LET here == w.army[a].current_province
        empty == {p \in Province : w.owner[p] = None}
    IN  CHOOSE p \in empty :
            \A q \in empty : \/ distance(p, here) < distance(q, here)
                             \/ distance(p, here) = distance(q, here) /\ p <= q

\* the province of the country with the least strength of its armies in
\* it, the first of them in the list of the country
target_consolidation_province(w, c) ==
    LET strength_in(p) ==
            SumOver(SelectSeq(w.armies[c], LAMBDA a : w.army[a].current_province = p),
                    [a \in DOMAIN w.army |-> w.army[a].strength])
        list == w.owned_provinces[c]
    IN  list[CHOOSE i \in 1..Len(list) :
                \A j \in 1..Len(list) :
                   \/ strength_in(list[i]) < strength_in(list[j])
                   \/ strength_in(list[i]) = strength_in(list[j]) /\ i <= j]

\* the loops over armies_to_reassign
RECURSIVE reassign(_, _, _)
reassign(w, c, list) ==
    IF list = <<>> THEN w
    ELSE LET a == Head(list)
             target == target_consolidation_province(w, c)
         IN  reassign(
                 IF \E p \in Province : w.owner[p] = None
                 THEN set_target([w EXCEPT !.army[a].mission_type = "attack",
                                           !.army[a].defense_province_target = None],
                                 a, closest_empty_target(w, a))
                 ELSE IF w.owned_provinces[c] # <<>>
                         /\ w.army[a].current_province # target
                 THEN set_target([w EXCEPT !.army[a].mission_type = "garrison",
                                           !.army[a].defense_province_target = None],
                                 a, target)
                 ELSE w,
                 c, Tail(list))

\* The orders to capture ownerless land next to the country c: the world
\* after them and the idle armies left without an order
empty_land_orders(w1, c) ==
    LET idle == idle_armies_for_offense(w1, c)
        lands == available_empty_lands_near_owned(w1, c, w1.owned_provinces[c], <<>>)
        sorted_idle == sorted_desc(idle, [a \in DOMAIN w1.army |-> w1.army[a].strength])
        num_armies_for_empty_land ==
            Min(Len(sorted_idle), Max(Len(lands), (Len(sorted_idle) * 2) \div 3))
    IN  IF lands # <<>> /\ idle # <<>>
        THEN [w |-> capture_empty_lands(w1, SubSeq(sorted_idle, 1, num_armies_for_empty_land),
                                        lands, {}),
              remaining_idle_armies |->
                  SubSeq(sorted_idle, num_armies_for_empty_land + 1, Len(sorted_idle))]
        ELSE [w |-> w1, remaining_idle_armies |-> idle]

\* The orders to attack the target of the cabinet (its enemies,
\* attack_target_ai and attack_ratio_ai in hundredths); r2 is the draw of
\* random.choice
ai_target_orders(w2, c, cabinet, remaining1, r2) ==
    LET primary == primary_attack_target(w2, c, cabinet, r2)
        num_attackers_for_ai_target ==
            Min(Len(remaining1), (Len(remaining1) * cabinet.attack_ratio_ai + 99) \div 100)
    IN  IF primary # None /\ remaining1 # <<>>
        THEN [w |-> attack_all(w2, SubSeq(remaining1, 1, num_attackers_for_ai_target), primary),
              remaining_idle_armies |->
                  SubSeq(remaining1, num_attackers_for_ai_target + 1, Len(remaining1))]
        ELSE [w |-> w2, remaining_idle_armies |-> remaining1]

\* math.ceil(len(non_frontier_defense_armies) * 0.7)
num_to_reassign(n) == (7 * n + 9) \div 10

\* Any ownership of the provinces of one of the maps in which country 1 has
\* province 1, its capital; of the provinces that are no islands none is on
\* the coast, or province 1 is. Country 1 is at peace or at war
\* with country 2, which it has as target or not. It has one or two armies
\* of 2,000 or 3,000 in provinces of its own, idle or on a defense or a
\* garrison mission.
InitOrders ==
    /\ allies = [c \in Country |-> {}]
    /\ \E war \in BOOLEAN :
          enemies = [c \in Country |-> IF war /\ c \in {1, 2} THEN {3 - c} ELSE {}]
    /\ budget_allocation = [c \in Country |-> [defense |-> 40, economy |-> 30, research |-> 30]]
    /\ attack_ratio_ai = [c \in Country |-> 50]
    /\ \E target \in {None, 2} :
          attack_target_ai = [c \in Country |-> IF c = 1 THEN target ELSE None]
    /\ \E E \in DefenseMaps : border_provinces = BordersOf(E)
    /\ \E k \in {1, None} :
          is_coastal = [p \in Province |-> is_island(p) \/ p = k]
    /\ owner \in [Province -> {1, 2, None}]
    /\ owner[1] = 1
    /\ owned_provinces = [c \in Country |-> SetToSeq({p \in Province : owner[p] = c})]
    /\ capital_province =
              [c \in Country |->
                  IF c = 1 THEN 1
                  ELSE IF owned_provinces[c] = <<>> THEN None
                  ELSE Head(owned_provinces[c])]
    /\ population = [p \in Province |-> 20000]
    /\ gdp = [p \in Province |-> 2000000]
    /\ \E n \in 1..MaxArmies, mission \in {"idle", "defense", "garrison"} :
       \E at \in [1..n -> Range(owned_provinces[1])] :
          /\ army = [a \in ArmyId |->
                        IF a > n THEN NoArmy
                        ELSE [Army(1, at[a], IF a = 1 THEN ARMY_BASE_STRENGTH ELSE 3000)
                                 EXCEPT !.mission_type = IF a = 1 THEN mission ELSE "idle"]]
          /\ armies = [c \in Country |-> IF c = 1 THEN SetToSeq(1..n) ELSE <<>>]
    /\ active_battles = <<>>
    /\ ret = [op |-> "none", c |-> 1, pre |-> army]

\* the cabinet of country c
cabinet_of(c) ==
    [enemies |-> enemies[c], attack_target_ai |-> attack_target_ai[c],
     attack_ratio_ai |-> attack_ratio_ai[c]]

\* the samples random.sample can draw from the defense armies of the rear
samples(w4, c) ==
    LET rear == non_frontier_defense_armies(w4, c)
    IN  {sample \in SUBSET Range(rear) : Cardinality(sample) = num_to_reassign(Len(rear))}

\* The orders of the once-a-second block, run for country c: the defense
\* missions, the capture of ownerless land, the attack on the target of the
\* cabinet, the attack of each army left on the nearest candidate and the
\* reassignment of the defense armies of the rear. order is the order in
\* which list(set) gives the border provinces, and r and r2 are the draws
\* of random.choice.
Orders(c, order, r, r2) ==
    /\ ret.op = "none"
    /\ \E w1 \in {assign_defense_missions(World, c, order, r)} :
       \E land \in {empty_land_orders(w1, c)} :
       \E ai \in {ai_target_orders(land.w, c, cabinet_of(c), land.remaining_idle_armies, r2)} :
       \E w4 \in {attack_nearest(ai.w, c, cabinet_of(c), ai.remaining_idle_armies)} :
       \E sample \in samples(w4, c) :
          Install(reassign(w4, c, SelectSeq(non_frontier_defense_armies(w4, c),
                                            LAMBDA a : a \in sample)))
    /\ ret' = [op |-> "orders", c |-> c, pre |-> army]
    /\ UNCHANGED_map
    /\ UNCHANGED_ai

NextOrders ==
    \E order \in Listings(get_border_provinces(World, 1)),
       r \in 0..(NProv ^ MaxReserve - 1), r2 \in 0..1 :
       Orders(1, order, r, r2)

SpecOrders == InitOrders /\ [][NextOrders]_vars

\* C29: the orders give an army an island as target only if the province
\* the army starts from is a province of its country on the coast that is
\* joined to the capital or is an island itself. (The code has no maximum
\* range, and the statement is left without one.)
C29_IslandOnlyFromCoast ==
    ret.op = "orders" =>
        \A a \in Range(armies[ret.c]) :
           LET launch == ret.pre[a].current_province
               target == army[a].target_province
           IN  target # None /\ target # ret.pre[a].target_province /\ is_island(target)
               => /\ owner[launch] = ret.c
                  /\ is_coastal[launch]
                  /\ is_island(launch) \/ Supplied(ret.c, launch)

(* ----------------------- the isolated provinces ------------------------- *)
\* the provinces of country c joined to its capital by adjacent provinces
\* of the same owner; none when the country has no capital
Reachable(c) ==
    IF capital_province[c] = None THEN {}
    ELSE SameOwnerClosure({capital_province[c]}, c)

ArrivedAtBattle == ret.op = "create_army" /\ ret.world.active_battles # <<>>

\* C33: no two battles of active_battles are over the same province; an
\* army that arrives on a province of another country while a battle over
\* it is going on is added to the attackers of that battle, and no second
\* battle is opened; and after every step each battle of active_battles
\* is active.
C33_KeyedByProvince ==
    /\ \A p \in Province : Cardinality(BattlesAt(World, p)) <= 1
    /\ \A i \in 1..Len(active_battles) : active_battles[i].is_active
    /\ ArrivedAtBattle =>
          /\ Len(active_battles) = Len(ret.world.active_battles)
          /\ \A a \in Range(armies[1]) :
                /\ army[a].in_battle
                /\ Count(a, active_battles[1].attacking_armies) = 1
          /\ \A a \in Range(ret.world.active_battles[1].attacking_armies) :
                InList(a, active_battles[1].attacking_armies)

\* a second army of country 1 has joined the battle its first army opened
C33_Witness ==
    /\ ArrivedAtBattle
    /\ armies[1] # <<>>
    /\ owner[NProv - 1] = 2
    /\ Len(active_battles) = 1
    /\ Len(active_battles[1].attacking_armies) = 2

(* ----------------------- the updates of a battle in a turn -------------- *)
\* A battle that has been updated before (battle_duration of 1 or more) was
\* updated by the update_all_battles of the country before this one in the
\* same turn: update_all_battles runs for each country in turn in the turns
\* of a logical second, and in no other turn.
UpdatedInThisTurn(b) == upcoming.c > 1 /\ b.battle_duration >= 1

\* C34: Battle.update runs at most once in a turn for each battle, however
\* many countries there are: the update_all_battles of a country leaves
\* every battle that was updated in the turn already as it is.
C34_OncePerTick ==
    [][ret'.op = "battles" =>
          \A i \in 1..Len(active_battles) :
             UpdatedInThisTurn(active_battles[i]) =>
                \E j \in 1..Len(active_battles') :
                   /\ active_battles'[j].province = active_battles[i].province
                   /\ active_battles'[j].battle_duration
                         = active_battles[i].battle_duration]_vars

(* ----------------------- the armies of a battle ------------------------- *)
\* the armies of a side that are alive: of strength above 0 and in the list
\* of their country
Living(side) ==
    {a \in Range(side) : army[a].strength > 0 /\ InList(a, armies[army[a].owner])}

C36_OnlyAgainstEnemies ==
    \A i \in 1..Len(active_battles) :
       \A a \in Living(active_battles[i].attacking_armies) :
          owner[active_battles[i].province] # None
             => owner[active_battles[i].province] \in enemies[army[a].owner]

(* ----------------------- the march to a defense post -------------------- *)
\* country.assign_defense_missions() of country 1, whose armies stand or
\* march in its provinces; order is the order in which list(set) gives
\* the border provinces, r the draws of random.choice
AssignPosts(order, r) ==
    /\ Install(assign_defense_missions(World, 1, order, r))
    /\ ret' = [op |-> "assign_defense_missions", a |-> ret.a,
               pre |-> [army |-> army, armies |-> armies]]
    /\ UNCHANGED_map
    /\ UNCHANGED_ai

\* the army loop of country 1 in one frame
MovePosted ==
    /\ Install(army_loop(World, 1, armies[1]))
    /\ ret' = [op |-> "movement", a |-> ret.a,
               pre |-> [army |-> army, armies |-> armies]]
    /\ UNCHANGED_map
    /\ UNCHANGED_ai

NextPosting ==
    \/ \E order \in Listings(get_border_provinces(World, 1)),
          r \in 0..(NProv ^ MaxReserve - 1) : AssignPosts(order, r)
    \/ MovePosted

SpecPosting == InitMarch /\ [][NextPosting]_vars

\* army a of country 1 is on a defense mission with its post in a province
\* other than the one it is in
Posted(a) ==
    /\ InList(a, armies[1])
    /\ army[a].mission_type = "defense"
    /\ army[a].target_province # None
    /\ army[a].target_province # army[a].current_province

\* C37: an army that assign_defense_missions gives a post in a province
\* other than the one it is in arrives there, unless it is no longer among
\* the armies of its country: every army loop takes it a step of
\* move_progress further on its march or into the province of its post.
\* (The march has a fixed number of steps, and no step of this
\* specification changes the post of an army on a defense mission.)
C37_PostedArrives ==
    [][ret'.op = "movement" =>
          \A a \in ArmyId :
             Posted(a) =>
                \/ ~InList(a, armies'[1])
                \/ army'[a].current_province = army[a].target_province
                \/ army'[a].move_progress > army[a].move_progress]_vars

(* ----------------------- the armies left in a conquered province -------- *)
\* The siege of the capital of country 2 as in InitFall, country 2 without
\* an army, country 1 with too few people left in province 1 to recruit
\* (500), or with enough (10,000).
InitRelief ==
    /\ Country_init
    /\ border_provinces = BordersOf(LineEdges)
    /\ is_coastal = [p \in Province |-> is_island(p)]
    /\ capital_province = [c \in Country |-> IF c = 1 THEN 1 ELSE NProv - 1]
    /\ owned_provinces = [c \in Country |-> <<capital_province[c]>>]
    /\ owner = [p \in Province |->
                   IF p = 1 THEN 1 ELSE IF p = NProv - 1 THEN 2 ELSE None]
    /\ \E h \in {2 * 4000, 2 * 200000}, home \in {2 * 500, 2 * 10000} :
          population = [p \in Province |->
                           IF p = NProv - 1 THEN h
                           ELSE IF p = 1 THEN home ELSE 200000]
    /\ gdp = [p \in Province |->
                 IF p \in {1, NProv - 1} THEN 2000000 ELSE 400000]
    /\ \E strength \in {50, 1000} :
          army = [a \in ArmyId |->
                     IF a = 1 THEN Besieger(strength) ELSE NoArmy]
    /\ armies = [c \in Country |-> IF c = 1 THEN <<1>> ELSE <<>>]
    /\ active_battles = <<>>
    /\ ret = [op |-> "none", c |-> 1, turn |-> 1, k |-> 0]

SpecRelief == InitRelief /\ [][NextTick]_vars

\* C38: when update_all_battles ends a battle in the attackers' victory
\* (the province goes from its original owner to another country), no
\* army of the original owner with strength above 0 is in the province.
C38_NoDefenderLeft ==
    [][ret'.op = "battles" =>
          \A i \in 1..Len(active_battles) :
             LET b == active_battles[i]
                 loser == b.original_province_owner
             IN  /\ loser # None
                 /\ owner[b.province] = loser
                 /\ owner'[b.province] \notin {loser, None}
                 => \A a \in Range(armies'[loser]) :
                       army'[a].strength > 0 => army'[a].current_province # b.province]_vars

(* ----------------------- a capital for every country with land --------- *)
\* the loop body has run for every country in the turn
TickBoundary ==
    \/ ret.op = "none"
    \/ ret.c = NCountry /\ ret.k = Len(phases(ret.turn))

\* C39: at every tick boundary every country that owns at least one
\* province has a capital, also a country that lost all its provinces
\* earlier and captured a province later with a surviving army.
C39_LandedHasCapital ==
    TickBoundary =>
        \A c \in Country :
           owned_provinces[c] # <<>> => capital_province[c] # None

(* ----------------------- the length of the armies list ----------------- *)
\* The creation block by itself, second after second and country after
\* country, with army ids enough for one country to fill its list and two
\* more. Each country has its capital as only province, with 1,500 people
\* in it (enough for one army) or 500,000. Between the blocks an army may fall: the first of
\* a country's list is taken off the list.
MusterIds == 1..(ArmyListLimit + 2)

InitMuster ==
    /\ Country_init
    /\ border_provinces = BordersOf(LineEdges)
    /\ is_coastal = [p \in Province |-> is_island(p)]
    /\ capital_province = [c \in Country |-> IF c = 1 THEN 1 ELSE NProv - 1]
    /\ owner = [p \in Province |->
                   IF p = 1 THEN 1 ELSE IF p = NProv - 1 THEN 2 ELSE None]
    /\ owned_provinces = [c \in Country |-> <<capital_province[c]>>]
    /\ \E people \in [Country -> {2 * 1500, 2 * 500000}] :
          population = [p \in Province |->
                           IF owner[p] # None THEN people[owner[p]] ELSE 200000]
    /\ gdp = [p \in Province |-> IF owner[p] # None THEN 2000000 ELSE 400000]
    /\ armies = [c \in Country |-> <<>>]
    /\ army = [a \in MusterIds |-> NoArmy]
    /\ active_battles = <<>>
    /\ ret = [op |-> "none", c |-> NCountry, before |-> 0]

\* the creation block of the loop body of country c
Muster(c, r) ==
    /\ c = (ret.c % NCountry) + 1
    /\ Install(creation(World, c,
                        military_budget(get_total_gdp(World, c),
                                        budget_allocation[c].defense),
                        0, r))
    /\ ret' = [op |-> "creation", c |-> c, before |-> Len(armies[c])]
    /\ UNCHANGED_map
    /\ UNCHANGED_ai

\* an army with strength 0 is taken off its country's list
Struck(c) ==
    /\ armies[c] # <<>>
    /\ armies' = [armies EXCEPT ![c] = Tail(@)]
    /\ army' = [army EXCEPT ![Head(armies[c])].strength = 0]
    /\ ret' = [ret EXCEPT !.op = "fallen"]
    /\ UNCHANGED <<owner, population, gdp, owned_provinces, capital_province,
                   active_battles>>
    /\ UNCHANGED_map
    /\ UNCHANGED_ai

NextMuster ==
    \/ \E c \in Country : Muster(c, 0)
    \/ \E c \in Country : Struck(c)

SpecMuster == InitMuster /\ [][NextMuster]_vars

\* C40: no country ever has more than 20 armies in its armies list; the
\* creation loop, the only place that adds to the list, stops at 20 armies
\* and makes at most MAX_ARMIES_PER_TURN_BUDGET armies in one turn.
C40_AtMostTwenty ==
    /\ \A c \in Country : Len(armies[c]) <= ArmyListLimit
    /\ ret.op = "creation" =>
           Len(armies[ret.c]) - ret.before <= MAX_ARMIES_PER_TURN_BUDGET

\* the creation block ran for a country with 20 armies that had the people,
\* the budget and a free id for one more, and made none
C40_Witness ==
    /\ ret.op = "creation"
    /\ ret.before = ArmyListLimit
    /\ Len(armies[ret.c]) = ArmyListLimit
    /\ FreeIds(World) # {}
    /\ get_total_population(World, ret.c) >= ARMY_BASE_STRENGTH
    /\ military_budget(get_total_gdp(World, ret.c),
                       budget_allocation[ret.c].defense)
           >= 5 * (4 * ARMY_BASE_STRENGTH)

====
